---- MODULE Spec2Model ----
(***************************************************************************)
(* A model of the Google Drive MCP server: the utility layer               *)
(* (src/src/services/utils.ts: the search-query builder, the text          *)
(* truncation helper and the error translator), the credential store       *)
(* (class DriveService of the same file) and the tool handlers             *)
(* (src/src/index.ts).                                                     *)
(*                                                                         *)
(* JavaScript strings are modelled as TLA+ strings (sequences of           *)
(* characters); s.length is Len(s), s.substring(a, b) is SubSeq(s, a+1, b) *)
(* and string concatenation is \o.  An optional property of a parameter    *)
(* object is a record [defined, value]: defined = FALSE is `undefined`.    *)
(***************************************************************************)
EXTENDS Naturals, Integers, Sequences, FiniteSets, TLC

VARIABLES
    pc,          \* position of the call under study: "start", "done" (and "again" for truncateText)
    params,      \* buildSearchQuery: the argument object
    conditions,  \* buildSearchQuery: the local array `conditions` at the return
    filter,      \* buildSearchQuery: the returned string
    text,        \* truncateText: the argument `text`
    limit,       \* truncateText: the argument `limit`
    truncated,   \* truncateText: the value returned by the first application
    retruncated, \* truncateText: the value returned when applied to its own output
    error,       \* formatError: the caught value
    message,     \* formatError: the returned string
    threw,       \* formatError: TRUE when the call ended by throwing
    credentials, \* DriveService: oauth2Client.credentials, the credential in memory
    drive,       \* DriveService: the field `drive`, "null" or "client"
    tokenFile,   \* the file at TOKEN_PATH
    now,         \* the clock
    authServer,  \* the authorization server: what it issued and what it still accepts
    pending,     \* calls suspended at their upstream round trip, each with its response
    last,        \* the store call that completed last, and how
    isHttpMode,  \* index.ts: the transport mode, fixed when the process starts
    invocation,  \* the tool invocation handled last: its tool and what its handler caught
    upstream,    \* the Drive API calls that invocation issued, in order
    result,      \* the result the handler returned
    input,       \* the validated input of the file handler invoked last
    files,       \* Google Drive: the files the server can reach, by id
    requests,    \* the Drive API requests of the invocation, each with its arguments
    responses,   \* what the Drive API answered to each of them
    structured   \* the structuredContent of the result, of kind "none" when it has none

vars == <<pc, params, conditions, filter, text, limit, truncated, retruncated, error, message, threw,
          credentials, drive, tokenFile, now, authServer, pending, last,
          isHttpMode, invocation, upstream, result, input, files, requests,
          responses, structured>>

queryVars == <<params, conditions, filter>>
truncVars == <<text, limit, truncated, retruncated>>
errorVars == <<error, message, threw>>
storeVars == <<credentials, drive, tokenFile, now, authServer, pending, last>>
toolVars == <<isHttpMode, invocation, upstream, result>>
driveVars == <<input, files, requests, responses, structured>>

(***************************************************************************)
(* Bounds of the model.                                                    *)
(***************************************************************************)
MaxLen == 3        \* longest string enumerated exhaustively over Alphabet
MaxTextLen == 4    \* longest text given to truncateText
MaxLimit == 5      \* largest limit given to truncateText
MaxTime == 1       \* last tick of the clock
MaxIssued == 2     \* access tokens the authorization server issues
MaxPending == 2    \* store calls suspended at their round trip at one time
MaxPage == 2       \* most files in one page of a listing

\* Characters the exhaustive inputs are built from: an ordinary character,
\* the single quote and the backslash.
Alphabet == {"a", "'", "\\"}

RECURSIVE StringsUpTo(_)
StringsUpTo(n) ==
    IF n = 0 THEN {""}
    ELSE LET S == StringsUpTo(n - 1) IN S \cup {s \o c : s \in S, c \in Alphabet}

(***************************************************************************)
(* String helpers (String.prototype.includes / startsWith / endsWith).     *)
(***************************************************************************)
CharAt(s, i) == SubSeq(s, i, i)

Contains(s, t) ==
    \E i \in 1..(Len(s) + 1) : i + Len(t) - 1 <= Len(s) /\ SubSeq(s, i, i + Len(t) - 1) = t

StartsWith(s, t) == Len(t) <= Len(s) /\ SubSeq(s, 1, Len(t)) = t

EndsWith(s, t) == Len(t) <= Len(s) /\ SubSeq(s, Len(s) - Len(t) + 1, Len(s)) = t

\* An optional property: absent (undefined) or present with a value.
Undefined(dflt) == [defined |-> FALSE, value |-> dflt]
Some(v) == [defined |-> TRUE, value |-> v]

\* JavaScript truthiness of an optional string: undefined and "" are falsy.
Truthy(opt) == opt.defined /\ opt.value # ""

(***************************************************************************)
(* buildSearchQuery (utils.ts:119-147)                                     *)
(***************************************************************************)

\* Mutant: replace() without the g flag escapes the first quote only.
RECURSIVE escapeQuotes_FirstOnly(_)
escapeQuotes_FirstOnly(s) ==
    IF s = "" THEN ""
    ELSE IF CharAt(s, 1) = "'" THEN "\\'" \o SubSeq(s, 2, Len(s))
    ELSE CharAt(s, 1) \o escapeQuotes_FirstOnly(SubSeq(s, 2, Len(s)))

\* s.replace(/'/g, "\\'"): every single quote becomes backslash + quote,
\* every other character is copied.
RECURSIVE escapeQuotes(_)
escapeQuotes(s) ==
    IF s = "" THEN ""
    ELSE (IF CharAt(s, 1) = "'" THEN "\\'" ELSE CharAt(s, 1))
         \o escapeQuotes(SubSeq(s, 2, Len(s)))

\* Template-literal conversion of a boolean: `${true}` is "true".
boolToString(b) == IF b THEN "true" ELSE "false"

\* Mutant: mime_type interpolated verbatim, as parent_id is.
mimeTypeClause_Unescaped(p) ==
    IF Truthy(p.mime_type)
    THEN << "mimeType='" \o p.mime_type.value \o "'" >>
    ELSE << >>

\* Mutant: the guard tests `!== undefined` instead of truthiness.
mimeTypeClause_DefinedCheck(p) ==
    IF p.mime_type.defined
    THEN << "mimeType='" \o escapeQuotes(p.mime_type.value) \o "'" >>
    ELSE << >>

mimeTypeClause(p) ==
    IF Truthy(p.mime_type)
    THEN << "mimeType='" \o escapeQuotes(p.mime_type.value) \o "'" >>
    ELSE << >>

\* Mutant: parent_id escaped as the other two values are.
parentIdClause_Escaped(p) ==
    IF Truthy(p.parent_id)
    THEN << "'" \o escapeQuotes(p.parent_id.value) \o "' in parents" >>
    ELSE << >>

\* The parent_id clause (utils.ts:131-133): the value between two quotes.
parentIdClause(p) ==
    IF Truthy(p.parent_id)
    THEN << "'" \o p.parent_id.value \o "' in parents" >>
    ELSE << >>

queryClause(p) ==
    IF Truthy(p.query)
    THEN << "name contains '" \o escapeQuotes(p.query.value) \o "'" >>
    ELSE << >>

\* Mutant: the explicit value is ignored and the default always pushed.
trashedClause_DefaultOnly(p) == << "trashed=false" >>

trashedClause(p) ==
    IF p.trashed.defined
    THEN << "trashed=" \o boolToString(p.trashed.value) >>
    ELSE << "trashed=false" >>

\* Mutant: the query clause is pushed before the parent_id clause.
buildConditions_QueryBeforeParent(p) ==
    mimeTypeClause(p) \o queryClause(p) \o parentIdClause(p) \o trashedClause(p)

\* The array `conditions` after the four pushes.
buildConditions(p) ==
    mimeTypeClause(p) \o parentIdClause(p) \o queryClause(p) \o trashedClause(p)

\* Array.prototype.join(sep)
RECURSIVE join(_, _)
join(parts, sep) ==
    IF Len(parts) = 0 THEN ""
    ELSE IF Len(parts) = 1 THEN parts[1]
    ELSE parts[1] \o sep \o join(Tail(parts), sep)

buildSearchQuery(p) == join(buildConditions(p), " and ")

\* Inputs of buildSearchQuery.
SampleStrings ==
    { "it's", "a/b", "report", "text/plain'; trashed=false",
      "trashed=true", "e' and trashed=false" }

StringValues == StringsUpTo(MaxLen) \cup SampleStrings

ParentIds == { "", "abc123", "a'", "x' in parents or 'y", "\\'" }

OptStrings(S) == { Undefined("") } \cup { Some(s) : s \in S }
OptBooleans == { Undefined(FALSE) } \cup { Some(b) : b \in BOOLEAN }

Predicates ==
    [ mime_type : OptStrings(StringValues),
      parent_id : OptStrings(ParentIds),
      query     : OptStrings(StringValues),
      trashed   : OptBooleans ]

NoPredicate ==
    [ mime_type |-> Undefined(""), parent_id |-> Undefined(""),
      query |-> Undefined(""), trashed |-> Undefined(FALSE) ]

(***************************************************************************)
(* truncateText (utils.ts:77-84)                                           *)
(***************************************************************************)
CHARACTER_LIMIT == 50000

\* String.prototype.substring(0, end): end is clamped to 0..length.
substring0(s, end) ==
    SubSeq(s, 1, IF end < 0 THEN 0 ELSE IF end < Len(s) THEN end ELSE Len(s))

\* Template-literal conversion of an integer: a minus sign when negative,
\* then its decimal digits.
digitToString(d) == CharAt("0123456789", d + 1)

RECURSIVE numberToString(_)
numberToString(n) ==
    IF n < 0 THEN "-" \o numberToString(0 - n)
    ELSE IF n < 10 THEN digitToString(n)
    ELSE numberToString(n \div 10) \o digitToString(n % 10)

\* The default parameter value: `limit: number = CHARACTER_LIMIT`.
effectiveLimit(lim) == IF lim.defined THEN lim.value ELSE CHARACTER_LIMIT

\* Mutant: the notice reports the length of the shown prefix as the total.
truncateText_NoticeShownLength(t, lim) ==
    LET l == effectiveLimit(lim) IN
      IF Len(t) <= l THEN t
      ELSE LET cut == substring0(t, l) IN
             cut \o "\n\n[... Content truncated. Total length: "
                 \o numberToString(Len(cut)) \o " characters, showing first "
                 \o numberToString(l) \o "]"

\* Mutant: the guard is `text.length < limit`.
truncateText_StrictLess(t, lim) ==
    LET l == effectiveLimit(lim) IN
      IF Len(t) < l THEN t
      ELSE substring0(t, l) \o "\n\n[... Content truncated. Total length: "
                           \o numberToString(Len(t)) \o " characters, showing first "
                           \o numberToString(l) \o "]"

truncateText(t, lim) ==
    LET l == effectiveLimit(lim) IN
      IF Len(t) <= l THEN t
      ELSE LET cut == substring0(t, l) IN
             cut \o "\n\n[... Content truncated. Total length: "
                 \o numberToString(Len(t)) \o " characters, showing first "
                 \o numberToString(l) \o "]"

\* Inputs of truncateText.
TextAlphabet == {"a", "b"}

RECURSIVE TextsUpTo(_)
TextsUpTo(n) ==
    IF n = 0 THEN {""}
    ELSE LET S == TextsUpTo(n - 1) IN S \cup {s \o c : s \in S, c \in TextAlphabet}

RECURSIVE Repeat(_, _)
Repeat(c, n) ==
    IF n = 0 THEN ""
    ELSE LET h == Repeat(c, n \div 2) IN h \o h \o (IF n % 2 = 1 THEN c ELSE "")

\* The test's inputs: 'a'.repeat(200) truncated at 100, 'hello world' at 100.
TestTextLen == 200
TestLimit == 100

Texts == TextsUpTo(MaxTextLen) \cup { Repeat("a", TestTextLen), "hello world" }
Limits == { Undefined(0) } \cup { Some(l) : l \in ((0 - 1)..MaxLimit) \cup { TestLimit } }

(***************************************************************************)
(* formatError (utils.ts:89-114)                                           *)
(***************************************************************************)

\* A caught value.  kind "Error" is an instance of Error with its message;
\* the other kinds are values that are no Error: a plain object, an object
\* without a prototype ("nullproto", as Object.create(null) makes), a string
\* (message holds it), null, undefined, a number (code holds it).  An Error or
\* a plain object may carry a `code` property, a number or not (then the
\* string of the digits of code).
ErrorValue(kind, msg, hasCode, codeIsNumber, code) ==
    [ kind |-> kind, message |-> msg, hasCode |-> hasCode,
      codeIsNumber |-> codeIsNumber, code |-> code ]

\* String(error) throws a TypeError for an object that has neither toString
\* nor valueOf to convert it with.
valueToStringThrows(e) == e.kind = "nullproto"

\* String(error) for a value that is no Error, when the conversion returns.
valueToString(e) ==
    CASE e.kind = "string"    -> e.message
      [] e.kind = "object"    -> "[object Object]"
      [] e.kind = "null"      -> "null"
      [] e.kind = "undefined" -> "undefined"
      [] e.kind = "number"    -> numberToString(e.code)

\* Mutant: no case for 429, which falls to the default branch.
formatError_No429Case(e) ==
    IF e.kind = "Error"
    THEN IF e.hasCode /\ e.codeIsNumber
         THEN CASE e.code = 401 ->
                     "Authentication failed. Please check your credentials and ensure they are still valid."
                [] e.code = 403 ->
                     "Access forbidden: " \o e.message \o ". You may not have permission to access this file with the drive.file scope."
                [] e.code = 404 ->
                     "File not found: " \o e.message \o ". With drive.file scope, the server can only access files it created or files the user has explicitly selected via the Picker. Ask the user to open the Picker (http://localhost:3000), select the file, then retry."
                [] OTHER ->
                     "Google Drive API error (" \o numberToString(e.code) \o "): " \o e.message
         ELSE "Error: " \o e.message
    ELSE "Unknown error: " \o valueToString(e)

\* Mutant: the 404 text stops after the message, without the Picker guidance.
formatError_404WithoutPicker(e) ==
    IF e.kind = "Error"
    THEN IF e.hasCode /\ e.codeIsNumber
         THEN CASE e.code = 401 ->
                     "Authentication failed. Please check your credentials and ensure they are still valid."
                [] e.code = 403 ->
                     "Access forbidden: " \o e.message \o ". You may not have permission to access this file with the drive.file scope."
                [] e.code = 404 ->
                     "File not found: " \o e.message \o "."
                [] e.code = 429 ->
                     "Rate limit exceeded. Please try again in a few moments."
                [] OTHER ->
                     "Google Drive API error (" \o numberToString(e.code) \o "): " \o e.message
         ELSE "Error: " \o e.message
    ELSE "Unknown error: " \o valueToString(e)

formatError(e) ==
    IF e.kind = "Error"
    THEN IF e.hasCode /\ e.codeIsNumber
         THEN CASE e.code = 401 ->
                     "Authentication failed. Please check your credentials and ensure they are still valid."
                [] e.code = 403 ->
                     "Access forbidden: " \o e.message \o ". You may not have permission to access this file with the drive.file scope."
                [] e.code = 404 ->
                     "File not found: " \o e.message \o ". With drive.file scope, the server can only access files it created or files the user has explicitly selected via the Picker. Ask the user to open the Picker (http://localhost:3000), select the file, then retry."
                [] e.code = 429 ->
                     "Rate limit exceeded. Please try again in a few moments."
                [] OTHER ->
                     "Google Drive API error (" \o numberToString(e.code) \o "): " \o e.message
         ELSE "Error: " \o e.message
    ELSE "Unknown error: " \o valueToString(e)

\* formatError ends by throwing exactly when String(error) does: nothing in
\* the function catches.
formatErrorThrows(e) == e.kind # "Error" /\ valueToStringThrows(e)

\* Inputs of formatError.
NoError == ErrorValue("undefined", "", FALSE, FALSE, 0)

Messages ==
    { "", "Unauthorized", "Forbidden", "Not Found", "Too Many Requests",
      "something broke", "oops", "Rate limit" }

StatusCodes == { 400, 401, 403, 404, 429, 500 }

\* The values of a `code` property: absent, a number, a string of digits.
CodeProperties ==
    { <<FALSE, FALSE, 0>> }
      \cup { <<TRUE, TRUE, c>> : c \in StatusCodes }
      \cup { <<TRUE, FALSE, c>> : c \in { 404, 429 } }

ErrorValues ==
    { ErrorValue("Error", m, cp[1], cp[2], cp[3]) : m \in Messages, cp \in CodeProperties }
      \cup { ErrorValue("object", "", cp[1], cp[2], cp[3]) : cp \in CodeProperties }
      \cup { ErrorValue("string", m, FALSE, FALSE, 0) : m \in Messages }
      \cup { ErrorValue("number", "", FALSE, FALSE, c) : c \in StatusCodes }
      \cup { ErrorValue("null", "", FALSE, FALSE, 0),
             ErrorValue("undefined", "", FALSE, FALSE, 0),
             ErrorValue("nullproto", "", FALSE, FALSE, 0) }

(***************************************************************************)
(* The credential store: class DriveService (utils.ts:164-276)             *)
(*                                                                         *)
(* A property of the credential is a record [kind, value]: kind is         *)
(* "undefined" (the property is absent), "null", "string" or "number".     *)
(***************************************************************************)
Fields == { "access_token", "refresh_token", "expiry_date" }

undefinedOf(f) ==
    IF f = "expiry_date" THEN [kind |-> "undefined", value |-> 0]
                         ELSE [kind |-> "undefined", value |-> ""]
nullOf(f) ==
    IF f = "expiry_date" THEN [kind |-> "null", value |-> 0]
                         ELSE [kind |-> "null", value |-> ""]
string(s) == [kind |-> "string", value |-> s]
number(n) == [kind |-> "number", value |-> n]

\* JavaScript truthiness of a property: a non-empty string, a non-zero number.
truthy(v) ==
    \/ v.kind = "string" /\ v.value # ""
    \/ v.kind = "number" /\ v.value # 0

\* The credentials of a fresh OAuth2Client (utils.ts:169): the empty object.
NoCredentials == [f \in Fields |-> undefinedOf(f)]

Credentials(at, rt, exp) ==
    [access_token |-> at, refresh_token |-> rt, expiry_date |-> exp]

\* JSON.stringify(credentials) (utils.ts:190): the properties that are not
\* undefined, each with its value; null, strings and numbers are kept.
stringify(c) == [f \in { g \in Fields : c[g].kind # "undefined" } |-> c[f]]

\* JSON.parse of a record written by stringify (utils.ts:176): a property the
\* record does not hold reads as undefined.
parse(r) == [f \in Fields |-> IF f \in DOMAIN r THEN r[f] ELSE undefinedOf(f)]

\* The token file: absent, unparseable, or a parseable record.
AbsentFile == [kind |-> "absent", record |-> stringify(NoCredentials)]
CorruptFile == [kind |-> "corrupt", record |-> stringify(NoCredentials)]
RecordFile(c) == [kind |-> "record", record |-> stringify(c)]

\* The constructor (utils.ts:168-186): with a file at TOKEN_PATH it parses the
\* file, sets the credentials and creates the Drive client; a failure of the
\* read or the parse is caught and logged, which leaves the fresh state.
loadedCredentials(file) ==
    IF file.kind = "record" THEN parse(file.record) ELSE NoCredentials
loadedDrive_WheneverFileExists(file) ==
    IF file.kind # "absent" THEN "client" ELSE "null"
loadedDrive(file) ==
    IF file.kind = "record" THEN "client" ELSE "null"

\* Mutant: a refresh token counts as well as an access token.
isAuthenticated_OrRefreshToken(c, d) ==
    d # "null" /\ (c.access_token.kind # "undefined" \/ truthy(c.refresh_token))

\* isAuthenticated (utils.ts:254-256).
isAuthenticated(c, d) == d # "null" /\ c.access_token.kind # "undefined"

\* getDrive (utils.ts:244-249) throws when no client was created.
getDriveThrows(d) == d = "null"

\* saveTokens (utils.ts:188-194): writeFileSync either writes the whole record,
\* is refused before it touches the file, or fails after it truncated the
\* file; the failure is caught and logged.
WriteOutcomes == { "written", "refused", "torn" }

saveTokens_MergeWithFile(c, file, outcome) ==
    CASE outcome = "written" ->
           [kind |-> "record",
            record |-> [f \in DOMAIN stringify(c) \cup
                              (IF file.kind = "record" THEN DOMAIN file.record ELSE {})
                        |-> IF f \in DOMAIN stringify(c) THEN c[f] ELSE file.record[f]]]
      [] outcome = "refused" -> file
      [] OTHER -> CorruptFile

saveTokens(c, file, outcome) ==
    CASE outcome = "written" -> RecordFile(c)
      [] outcome = "refused" -> file
      [] OTHER -> CorruptFile

\* OAuth2Client.isTokenExpiring, as getAccessToken (utils.ts:263) uses it: a
\* credential without a truthy expiry_date never counts as expiring.
isTokenExpiring(c, t) == truthy(c.expiry_date) /\ c.expiry_date.value <= t

\* OAuth2Client.getAccessToken (utils.ts:263) refreshes when no truthy access
\* token is held or the held one is expiring.
shouldRefresh(c, t) == ~truthy(c.access_token) \/ isTokenExpiring(c, t)

\* The authorization server.  issued counts the access tokens it issued,
\* expires[i] is the end of the i-th one's life and refreshTokens holds the
\* refresh tokens it accepts.
accessTokenName(n) == "at" \o numberToString(n)
refreshTokenName(n) == "rt" \o numberToString(n)

NewServer == [issued |-> 0, expires |-> << >>, refreshTokens |-> {}]

\* The access token is one the server issued and its life has not ended.
validAccessToken(server, token, t) ==
    \E i \in 1..server.issued : token = accessTokenName(i) /\ t < server.expires[i]

\* The token response to an authorization code (getToken, utils.ts:211): an
\* access token, a refresh token and the expiry.
exchangeResponse(server, t) ==
    Credentials(string(accessTokenName(server.issued + 1)),
                string(refreshTokenName(server.issued + 1)),
                number(t + 1))

serverAfterExchange(server, t) ==
    [issued |-> server.issued + 1,
     expires |-> Append(server.expires, t + 1),
     refreshTokens |-> server.refreshTokens \cup { refreshTokenName(server.issued + 1) }]

\* The token response to a refresh: a new access token and its expiry, no
\* refresh token.
refreshAccepted(server, rt) ==
    rt.kind = "string" /\ rt.value \in server.refreshTokens

refreshResponse(server, t) ==
    Credentials(string(accessTokenName(server.issued + 1)),
                undefinedOf("refresh_token"),
                number(t + 1))

serverAfterRefresh(server, t) ==
    [issued |-> server.issued + 1,
     expires |-> Append(server.expires, t + 1),
     refreshTokens |-> server.refreshTokens]

\* OAuth2Client keeps the refresh token it holds when it stores the response
\* to a refresh.
refreshed(c, tokens) == [tokens EXCEPT !.refresh_token = c.refresh_token]

\* Token sets given to setTokens, and the records a token file holds when the
\* process starts.
TokenSets ==
    { Credentials(string(""), undefinedOf("refresh_token"), undefinedOf("expiry_date")),
      Credentials(nullOf("access_token"), undefinedOf("refresh_token"), undefinedOf("expiry_date")),
      Credentials(undefinedOf("access_token"), string("revoked"), undefinedOf("expiry_date")),
      Credentials(string("manual"), undefinedOf("refresh_token"), undefinedOf("expiry_date")),
      Credentials(string("manual"), string("revoked"), number(1)) }

InitialFiles == { AbsentFile, CorruptFile } \cup { RecordFile(c) : c \in TokenSets }

Codes == { "valid", "invalid" }

\* The record of the call that completed last: how it ended ("returned" or
\* "threw"), the token it returned or the message it threw, what became of
\* its write of the token file ("none" when it wrote nothing) and the token
\* set it received, as its argument or from the server.
Completed(op, status, value, saved, received) ==
    [op |-> op, status |-> status, value |-> value, saved |-> saved, received |-> received]

Response(op, ok, tokens) == [op |-> op, ok |-> ok, tokens |-> tokens]

\* Every variable of the store at rest, for the specifications of the
\* utility functions.
StoreIdle ==
    /\ credentials = NoCredentials
    /\ drive = "null"
    /\ tokenFile = AbsentFile
    /\ now = 0
    /\ authServer = NewServer
    /\ pending = {}
    /\ last = Completed("none", "returned", "", "none", NoCredentials)

\* Every variable of the tool handlers at rest.  An invocation records its
\* tool, whether the handler's try block failed, at which of its Drive API
\* calls (0: at none) and what was caught.
ToolsIdle ==
    /\ isHttpMode = FALSE
    /\ invocation = [tool |-> "none", failed |-> FALSE, failedAt |-> 0, caught |-> NoError]
    /\ upstream = << >>
    /\ result = [text |-> "", isError |-> FALSE, threw |-> FALSE]

\* Google Drive as the file handlers see it: a file is there or not, and has
\* a name and a content.
FileIds == { "f1", "f2" }

NoFile == [exists |-> FALSE, name |-> "", content |-> ""]
File(name, content) == [exists |-> TRUE, name |-> name, content |-> content]

\* The input before any file handler was invoked.
NoInput == [tool |-> "none"]

\* The result of a handler that returns no structuredContent.
NoStructured == [kind |-> "none"]

\* Every variable of the file handlers' exchange with Drive at rest.
DriveIdle ==
    /\ input = NoInput
    /\ files = [f \in FileIds |-> NoFile]
    /\ requests = << >>
    /\ responses = << >>
    /\ structured = NoStructured

\* Every variable of the utility functions at rest, for the specifications of
\* the store.
UtilsIdle ==
    /\ params = NoPredicate /\ conditions = << >> /\ filter = ""
    /\ text = "" /\ limit = Undefined(0) /\ truncated = "" /\ retruncated = ""
    /\ error = NoError /\ message = "" /\ threw = FALSE

(***************************************************************************)
(* The calls: each specification draws the arguments of one function from  *)
(* its inputs and applies the function to them.                            *)
(***************************************************************************)
InitQuery ==
    /\ pc = "start"
    /\ params \in Predicates
    /\ conditions = << >>
    /\ filter = ""
    /\ text = "" /\ limit = Undefined(0) /\ truncated = "" /\ retruncated = ""
    /\ error = NoError /\ message = "" /\ threw = FALSE
    /\ StoreIdle
    /\ ToolsIdle
    /\ DriveIdle

CallBuildSearchQuery ==
    /\ pc = "start"
    /\ conditions' = buildConditions(params)
    /\ filter' = buildSearchQuery(params)
    /\ pc' = "done"
    /\ UNCHANGED <<storeVars, toolVars, driveVars, params, truncVars, errorVars>>

NextQuery == CallBuildSearchQuery

SpecQuery == InitQuery /\ [][NextQuery]_vars

InitTruncate ==
    /\ pc = "start"
    /\ text \in Texts
    /\ limit \in Limits
    /\ truncated = "" /\ retruncated = ""
    /\ params = NoPredicate /\ conditions = << >> /\ filter = ""
    /\ error = NoError /\ message = "" /\ threw = FALSE
    /\ StoreIdle
    /\ ToolsIdle
    /\ DriveIdle

CallTruncateText ==
    /\ pc = "start"
    /\ truncated' = truncateText(text, limit)
    /\ pc' = "done"
    /\ UNCHANGED <<storeVars, toolVars, driveVars, text, limit, retruncated, queryVars, errorVars>>

\* truncateText applied, with the same limit, to its own output.
CallTruncateTextAgain ==
    /\ pc = "done"
    /\ retruncated' = truncateText(truncated, limit)
    /\ pc' = "again"
    /\ UNCHANGED <<storeVars, toolVars, driveVars, text, limit, truncated, queryVars, errorVars>>

NextTruncate == CallTruncateText \/ CallTruncateTextAgain

SpecTruncate == InitTruncate /\ [][NextTruncate]_vars

InitError ==
    /\ pc = "start"
    /\ error \in ErrorValues
    /\ message = "" /\ threw = FALSE
    /\ StoreIdle
    /\ ToolsIdle
    /\ DriveIdle
    /\ params = NoPredicate /\ conditions = << >> /\ filter = ""
    /\ text = "" /\ limit = Undefined(0) /\ truncated = "" /\ retruncated = ""

CallFormatError ==
    /\ pc = "start"
    /\ threw' = formatErrorThrows(error)
    /\ message' = (IF formatErrorThrows(error) THEN "" ELSE formatError(error))
    /\ pc' = "done"
    /\ UNCHANGED <<storeVars, toolVars, driveVars, error, queryVars, truncVars>>

NextError == CallFormatError

SpecError == InitError /\ [][NextError]_vars

(***************************************************************************)
(* The calls of the credential store.  A call that waits for the           *)
(* authorization server is two steps: the step that sends the request (the *)
(* server answers it at once and the response waits in pending) and the    *)
(* step that resumes the call with the response.  Everything a call does   *)
(* between two awaits is one step.                                         *)
(***************************************************************************)
utilVars == <<pc, queryVars, truncVars, errorVars>>

InitStore ==
    /\ pc = "store"
    /\ UtilsIdle
    /\ ToolsIdle
    /\ DriveIdle
    /\ tokenFile \in InitialFiles
    /\ credentials = loadedCredentials(tokenFile)
    /\ drive = loadedDrive(tokenFile)
    /\ now = 0
    /\ authServer = NewServer
    /\ pending = {}
    /\ last = Completed("constructor", "returned", "", "none", NoCredentials)

\* setCredentials(code) up to its await (utils.ts:211): getToken sends the
\* code; the server issues a token set for a valid code and rejects another.
setCredentialsCall(code) ==
    /\ Cardinality(pending) < MaxPending
    /\ IF code = "valid"
       THEN /\ authServer.issued < MaxIssued
            /\ pending' = pending \cup
                 { Response("setCredentials", TRUE, exchangeResponse(authServer, now)) }
            /\ authServer' = serverAfterExchange(authServer, now)
       ELSE /\ pending' = pending \cup { Response("setCredentials", FALSE, NoCredentials) }
            /\ UNCHANGED authServer
    /\ UNCHANGED <<credentials, drive, tokenFile, now, last, utilVars, toolVars, driveVars>>

setCredentialsReturn_ClientBeforeExchange(p, outcome) ==
    /\ p \in pending /\ p.op = "setCredentials"
    /\ pending' = pending \ { p }
    /\ drive' = "client"
    /\ IF p.ok
       THEN /\ credentials' = p.tokens
            /\ tokenFile' = saveTokens(p.tokens, tokenFile, outcome)
            /\ last' = Completed("setCredentials", "returned", "", outcome, p.tokens)
       ELSE /\ last' = Completed("setCredentials", "threw", "invalid_grant", "none", NoCredentials)
            /\ UNCHANGED <<credentials, tokenFile>>
    /\ UNCHANGED <<now, authServer, utilVars, toolVars, driveVars>>

\* setCredentials(code) from its await on (utils.ts:211-214): a rejection
\* leaves the call by throwing; otherwise the tokens replace the credentials,
\* the Drive client is created and the credentials are saved.
setCredentialsReturn(p, outcome) ==
    /\ p \in pending /\ p.op = "setCredentials"
    /\ pending' = pending \ { p }
    /\ IF p.ok
       THEN /\ credentials' = p.tokens
            /\ drive' = "client"
            /\ tokenFile' = saveTokens(p.tokens, tokenFile, outcome)
            /\ last' = Completed("setCredentials", "returned", "", outcome, p.tokens)
       ELSE /\ last' = Completed("setCredentials", "threw", "invalid_grant", "none", NoCredentials)
            /\ UNCHANGED <<credentials, drive, tokenFile>>
    /\ UNCHANGED <<now, authServer, utilVars, toolVars, driveVars>>

setTokens_FatalWriteFailure(tokens, outcome) ==
    /\ tokenFile' = saveTokens(tokens, tokenFile, outcome)
    /\ IF outcome = "written"
       THEN /\ credentials' = tokens
            /\ drive' = "client"
            /\ last' = Completed("setTokens", "returned", "", outcome, tokens)
       ELSE /\ last' = Completed("setTokens", "threw", "write failed", outcome, tokens)
            /\ UNCHANGED <<credentials, drive>>
    /\ UNCHANGED <<now, authServer, pending, utilVars, toolVars, driveVars>>

\* setTokens(tokens) (utils.ts:220-228): no await before the save.
setTokens(tokens, outcome) ==
    /\ credentials' = tokens
    /\ drive' = "client"
    /\ tokenFile' = saveTokens(tokens, tokenFile, outcome)
    /\ last' = Completed("setTokens", "returned", "", outcome, tokens)
    /\ UNCHANGED <<now, authServer, pending, utilVars, toolVars, driveVars>>

\* getFreshAccessToken (utils.ts:262-268) when the client holds a token that
\* needs no refresh: getAccessToken returns it, the credentials are saved and
\* the token is returned; an empty token would be thrown as a failure.
getFreshAccessTokenHeld(outcome) ==
    /\ ~shouldRefresh(credentials, now)
    /\ IF truthy(credentials.access_token)
       THEN /\ tokenFile' = saveTokens(credentials, tokenFile, outcome)
            /\ last' = Completed("getFreshAccessToken", "returned",
                                 credentials.access_token.value, outcome, NoCredentials)
       ELSE /\ last' = Completed("getFreshAccessToken", "threw",
                                 "Failed to obtain access token", "none", NoCredentials)
            /\ UNCHANGED tokenFile
    /\ UNCHANGED <<credentials, drive, now, authServer, pending, utilVars, toolVars, driveVars>>

\* getFreshAccessToken when a refresh is needed and no refresh token is held:
\* getAccessToken throws (utils.ts:263).
getFreshAccessTokenNoRefreshToken ==
    /\ shouldRefresh(credentials, now)
    /\ ~truthy(credentials.refresh_token)
    /\ last' = Completed("getFreshAccessToken", "threw",
                         "No refresh token or refresh handler callback is set.", "none",
                         NoCredentials)
    /\ UNCHANGED <<credentials, drive, tokenFile, now, authServer, pending, utilVars, toolVars, driveVars>>

\* getFreshAccessToken when a refresh is needed and a refresh token is held,
\* up to the await (utils.ts:263): the client sends the refresh token.
getFreshAccessTokenCall ==
    /\ shouldRefresh(credentials, now)
    /\ truthy(credentials.refresh_token)
    /\ Cardinality(pending) < MaxPending
    /\ IF refreshAccepted(authServer, credentials.refresh_token)
       THEN /\ authServer.issued < MaxIssued
            /\ pending' = pending \cup
                 { Response("getFreshAccessToken", TRUE, refreshResponse(authServer, now)) }
            /\ authServer' = serverAfterRefresh(authServer, now)
       ELSE /\ pending' = pending \cup { Response("getFreshAccessToken", FALSE, NoCredentials) }
            /\ UNCHANGED authServer
    /\ UNCHANGED <<credentials, drive, tokenFile, now, last, utilVars, toolVars, driveVars>>

getFreshAccessTokenReturn_NoSave(p, outcome) ==
    /\ p \in pending /\ p.op = "getFreshAccessToken"
    /\ pending' = pending \ { p }
    /\ IF p.ok
       THEN /\ credentials' = refreshed(credentials, p.tokens)
            /\ last' = Completed("getFreshAccessToken", "returned",
                                 p.tokens.access_token.value, "none", p.tokens)
       ELSE /\ last' = Completed("getFreshAccessToken", "threw", "invalid_grant", "none", NoCredentials)
            /\ UNCHANGED credentials
    /\ UNCHANGED <<tokenFile, drive, now, authServer, utilVars, toolVars, driveVars>>

\* Mutant: the call saves the token response it received, not the
\* credentials the client holds.
getFreshAccessTokenReturn_SaveResponse(p, outcome) ==
    /\ p \in pending /\ p.op = "getFreshAccessToken"
    /\ pending' = pending \ { p }
    /\ IF p.ok
       THEN /\ credentials' = refreshed(credentials, p.tokens)
            /\ tokenFile' = saveTokens(p.tokens, tokenFile, outcome)
            /\ last' = Completed("getFreshAccessToken", "returned",
                                 p.tokens.access_token.value, outcome, p.tokens)
       ELSE /\ last' = Completed("getFreshAccessToken", "threw", "invalid_grant", "none", NoCredentials)
            /\ UNCHANGED <<credentials, tokenFile>>
    /\ UNCHANGED <<drive, now, authServer, utilVars, toolVars, driveVars>>

\* getFreshAccessToken from the await on (utils.ts:263-267): the client stored
\* the refreshed credentials; the token is checked, the credentials are saved
\* and the token is returned.  A rejected refresh leaves by throwing.
getFreshAccessTokenReturn(p, outcome) ==
    /\ p \in pending /\ p.op = "getFreshAccessToken"
    /\ pending' = pending \ { p }
    /\ IF p.ok
       THEN /\ credentials' = refreshed(credentials, p.tokens)
            /\ tokenFile' = saveTokens(refreshed(credentials, p.tokens), tokenFile, outcome)
            /\ last' = Completed("getFreshAccessToken", "returned",
                                 p.tokens.access_token.value, outcome, p.tokens)
       ELSE /\ last' = Completed("getFreshAccessToken", "threw", "invalid_grant", "none", NoCredentials)
            /\ UNCHANGED <<credentials, tokenFile>>
    /\ UNCHANGED <<drive, now, authServer, utilVars, toolVars, driveVars>>

\* A request through the Drive client that getDrive returned (the handlers of
\* index.ts, e.g. index.ts:237), when the credentials need a refresh and a
\* refresh token is held: the client sends the refresh token before the
\* request.  A request that needs no refresh leaves the store as it is.
driveRequestCall ==
    /\ ~getDriveThrows(drive)
    /\ shouldRefresh(credentials, now)
    /\ truthy(credentials.refresh_token)
    /\ Cardinality(pending) < MaxPending
    /\ IF refreshAccepted(authServer, credentials.refresh_token)
       THEN /\ authServer.issued < MaxIssued
            /\ pending' = pending \cup
                 { Response("driveRequest", TRUE, refreshResponse(authServer, now)) }
            /\ authServer' = serverAfterRefresh(authServer, now)
       ELSE /\ pending' = pending \cup { Response("driveRequest", FALSE, NoCredentials) }
            /\ UNCHANGED authServer
    /\ UNCHANGED <<credentials, drive, tokenFile, now, last, utilVars, toolVars, driveVars>>

\* The request resumes with the refresh response: the client stores the
\* refreshed credentials and the request goes out.  No code of the server
\* runs between the refresh and the request, and none saves the credentials
\* after it.
driveRequestReturn(p) ==
    /\ p \in pending /\ p.op = "driveRequest"
    /\ pending' = pending \ { p }
    /\ IF p.ok
       THEN /\ credentials' = refreshed(credentials, p.tokens)
            /\ last' = Completed("driveRequest", "returned",
                                 p.tokens.access_token.value, "none", p.tokens)
       ELSE /\ last' = Completed("driveRequest", "threw", "invalid_grant", "none", NoCredentials)
            /\ UNCHANGED credentials
    /\ UNCHANGED <<drive, tokenFile, now, authServer, utilVars, toolVars, driveVars>>

\* Time passes.
Tick ==
    /\ now < MaxTime
    /\ now' = now + 1
    /\ UNCHANGED <<credentials, drive, tokenFile, authServer, pending, last, utilVars, toolVars, driveVars>>

\* The process ends and a new one starts: the constructor (utils.ts:168-186)
\* runs over the token file as it is; the calls in progress are gone.
Restart ==
    /\ credentials' = loadedCredentials(tokenFile)
    /\ drive' = loadedDrive(tokenFile)
    /\ pending' = {}
    /\ last' = Completed("constructor", "returned", "", "none", NoCredentials)
    /\ UNCHANGED <<tokenFile, now, authServer, utilVars, toolVars, driveVars>>

NextStore ==
    \/ \E code \in Codes : setCredentialsCall(code)
    \/ \E p \in pending, outcome \in WriteOutcomes : setCredentialsReturn(p, outcome)
    \/ \E tokens \in TokenSets, outcome \in WriteOutcomes : setTokens(tokens, outcome)
    \/ \E outcome \in WriteOutcomes : getFreshAccessTokenHeld(outcome)
    \/ getFreshAccessTokenNoRefreshToken
    \/ getFreshAccessTokenCall
    \/ \E p \in pending, outcome \in WriteOutcomes : getFreshAccessTokenReturn(p, outcome)
    \/ driveRequestCall
    \/ \E p \in pending : driveRequestReturn(p)
    \/ Tick
    \/ Restart

SpecStore == InitStore /\ [][NextStore]_vars

\* The calls of setCredentials, setTokens and getFreshAccessToken alone, in
\* any interleaving of their two halves, with every write of the token file
\* succeeding.
NextInterleave ==
    \/ \E code \in Codes : setCredentialsCall(code)
    \/ \E p \in pending : setCredentialsReturn(p, "written")
    \/ \E tokens \in TokenSets : setTokens(tokens, "written")
    \/ getFreshAccessTokenHeld("written")
    \/ getFreshAccessTokenNoRefreshToken
    \/ getFreshAccessTokenCall
    \/ \E p \in pending : getFreshAccessTokenReturn(p, "written")
    \/ Tick

SpecInterleave == InitStore /\ [][NextInterleave]_vars

(***************************************************************************)
(* The tool handlers (index.ts:88-896).  A handler is one step: the        *)
(* answers of the Drive API to its calls are inputs of the step.           *)
(***************************************************************************)
\* Mutant: the stdio guidance in both modes.
NotAuthenticated_OneMessage(http) ==
    ErrorValue("Error",
               "Not authenticated. Call gdrive_authenticate to get an auth URL, then ask the user to visit it and provide the code to gdrive_set_credentials.",
               FALSE, FALSE, 0)

\* What ensureAuthenticated (index.ts:74-82) throws.
NotAuthenticated(http) ==
    ErrorValue("Error",
               IF http
               THEN "Not authenticated. Ask the user to visit http://localhost:3000 and sign in with Google."
               ELSE "Not authenticated. Call gdrive_authenticate to get an auth URL, then ask the user to visit it and provide the code to gdrive_set_credentials.",
               FALSE, FALSE, 0)

\* What getDrive (utils.ts:246) throws.
NoDriveClient ==
    ErrorValue("Error", "Not authenticated. Call setCredentials() or setTokens() first.",
               FALSE, FALSE, 0)

FileTools ==
    { "gdrive_list_files", "gdrive_search_files", "gdrive_get_file", "gdrive_create_file",
      "gdrive_create_folder", "gdrive_update_file", "gdrive_delete_file", "gdrive_copy_file" }

\* The keys of GOOGLE_DOC_EXPORT_MIME_TYPES (constants.ts:19-23).
GOOGLE_DOC_EXPORT_MIME_TYPES ==
    { "application/vnd.google-apps.document",
      "application/vnd.google-apps.spreadsheet",
      "application/vnd.google-apps.presentation" }

\* The failures of a call to the Drive API: errors of the HTTP client, with
\* the status as a numeric code, and a network failure, whose code is a word.
UpstreamFailures ==
    { ErrorValue("Error", "Invalid Credentials", TRUE, TRUE, 401),
      ErrorValue("Error", "Forbidden", TRUE, TRUE, 403),
      ErrorValue("Error", "File not found", TRUE, TRUE, 404),
      ErrorValue("Error", "Rate Limit Exceeded", TRUE, TRUE, 429),
      ErrorValue("Error", "Backend Error", TRUE, TRUE, 500),
      ErrorValue("Error", "socket hang up", TRUE, FALSE, 0) }

MimeTypes == { "application/vnd.google-apps.document", "text/plain", "application/json", "image/png" }

\* The answers a call through the Drive client can get with credentials c at
\* time t: the client throws before the request when it needs a refresh and
\* holds no refresh token, or holds one the server rejects; otherwise the API
\* answers, with the file's MIME type where the call asks for it, or fails.
Answers(c, t, server) ==
    IF shouldRefresh(c, t) /\ ~truthy(c.refresh_token)
    THEN { [ok |-> FALSE, error |-> ErrorValue("Error", "No refresh token is set.", FALSE, FALSE, 0),
            mimeType |-> ""] }
    ELSE IF shouldRefresh(c, t) /\ ~refreshAccepted(server, c.refresh_token)
    THEN { [ok |-> FALSE, error |-> ErrorValue("Error", "invalid_grant", TRUE, FALSE, 0),
            mimeType |-> ""] }
    ELSE { [ok |-> TRUE, error |-> NoError, mimeType |-> m] : m \in MimeTypes }
           \cup { [ok |-> FALSE, error |-> e, mimeType |-> ""] : e \in UpstreamFailures }

\* The first Drive API call of each file tool's handler.
firstCall(tool) ==
    CASE tool = "gdrive_list_files" -> "files.list"          \* index.ts:237
      [] tool = "gdrive_search_files" -> "files.list"        \* index.ts:334
      [] tool = "gdrive_get_file" -> "files.get"             \* index.ts:420
      [] tool = "gdrive_create_file" -> "files.create"       \* index.ts:539
      [] tool = "gdrive_create_folder" -> "files.create"     \* index.ts:611
      [] tool = "gdrive_update_file" -> "files.update"       \* index.ts:689
      [] tool = "gdrive_delete_file" -> "files.get"          \* index.ts:756
      [] tool = "gdrive_copy_file" -> "files.copy"           \* index.ts:818

\* The call that follows an answered first call, "" when the handler makes no
\* other: gdrive_get_file reads the content of a document or a text file
\* when include_content is set (index.ts:441-459), gdrive_delete_file deletes
\* after it fetched the name (index.ts:756-757).
secondCall_None(tool, include_content, mimeType) == ""

secondCall(tool, include_content, mimeType) ==
    CASE tool = "gdrive_get_file" /\ include_content ->
           IF mimeType \in GOOGLE_DOC_EXPORT_MIME_TYPES THEN "files.export"
           ELSE IF StartsWith(mimeType, "text/") \/ Contains(mimeType, "json")
                THEN "files.get(alt: media)"
           ELSE ""
      [] tool = "gdrive_delete_file" -> "files.delete"
      [] OTHER -> ""

\* What a handler returns (the try/catch of every handler, e.g.
\* index.ts:228-280): the success payload without an error flag, or
\* formatError of what it caught with the flag; when formatError throws, the
\* handler throws.  The text of a success payload is not modelled beyond the
\* tool it belongs to.
handlerResult_Rethrow(failed, caught, success) ==
    IF ~failed THEN [text |-> success, isError |-> FALSE, threw |-> FALSE]
    ELSE [text |-> "", isError |-> FALSE, threw |-> TRUE]

handlerResult(failed, caught, success) ==
    IF ~failed THEN [text |-> success, isError |-> FALSE, threw |-> FALSE]
    ELSE IF formatErrorThrows(caught) THEN [text |-> "", isError |-> FALSE, threw |-> TRUE]
    ELSE [text |-> formatError(caught), isError |-> TRUE, threw |-> FALSE]

InitTools ==
    /\ pc = "tools"
    /\ UtilsIdle
    /\ isHttpMode \in BOOLEAN
    /\ tokenFile \in InitialFiles
    /\ credentials = loadedCredentials(tokenFile)
    /\ drive = loadedDrive(tokenFile)
    /\ now = 0
    /\ authServer = NewServer
    /\ pending = {}
    /\ last = Completed("constructor", "returned", "", "none", NoCredentials)
    /\ DriveIdle
    /\ invocation = [tool |-> "none", failed |-> FALSE, failedAt |-> 0, caught |-> NoError]
    /\ upstream = << >>
    /\ result = [text |-> "", isError |-> FALSE, threw |-> FALSE]

\* The handler of a file tool: ensureAuthenticated, getDrive, the first call
\* and, for two tools, a second one; the first failure ends the try block.
fileTool(tool, include_content, a1, a2) ==
    LET gate == ~isAuthenticated(credentials, drive)
        noClient == ~gate /\ getDriveThrows(drive)
        called == ~gate /\ ~noClient
        second == IF called /\ a1.ok THEN secondCall(tool, include_content, a1.mimeType) ELSE ""
        failed == gate \/ noClient \/ ~a1.ok \/ (second # "" /\ ~a2.ok)
        caught == IF gate THEN NotAuthenticated(isHttpMode)
                  ELSE IF noClient THEN NoDriveClient
                  ELSE IF ~a1.ok THEN a1.error
                  ELSE a2.error
    IN  /\ invocation' = [tool |-> tool, failed |-> failed,
                          failedAt |-> IF ~called \/ ~failed THEN 0 ELSE IF ~a1.ok THEN 1 ELSE 2,
                          caught |-> IF failed THEN caught ELSE NoError]
        /\ upstream' = IF ~called THEN << >>
                       ELSE IF second = "" THEN << firstCall(tool) >>
                       ELSE << firstCall(tool), second >>
        /\ result' = handlerResult(failed, caught, "result of " \o tool)
        /\ UNCHANGED <<isHttpMode, storeVars, utilVars, driveVars>>

\* The handler of gdrive_set_credentials (index.ts:168-187): setCredentials
\* (utils.ts:210-215) exchanges the code, stores the tokens, creates the
\* client and saves; a rejected exchange is caught.
gdrive_set_credentials(code, outcome) ==
    /\ IF code = "valid"
       THEN /\ authServer.issued < MaxIssued
            /\ authServer' = serverAfterExchange(authServer, now)
            /\ credentials' = exchangeResponse(authServer, now)
            /\ drive' = "client"
            /\ tokenFile' = saveTokens(exchangeResponse(authServer, now), tokenFile, outcome)
            /\ last' = Completed("setCredentials", "returned", "", outcome,
                                 exchangeResponse(authServer, now))
            /\ invocation' = [tool |-> "gdrive_set_credentials", failed |-> FALSE,
                              failedAt |-> 0, caught |-> NoError]
            /\ result' = handlerResult(FALSE, NoError,
                 "Successfully authenticated with Google Drive! You can now use other Google Drive tools.")
       ELSE /\ last' = Completed("setCredentials", "threw", "invalid_grant", "none", NoCredentials)
            /\ invocation' = [tool |-> "gdrive_set_credentials", failed |-> TRUE, failedAt |-> 0,
                              caught |-> ErrorValue("Error", "invalid_grant", TRUE, FALSE, 0)]
            /\ result' = handlerResult(TRUE, ErrorValue("Error", "invalid_grant", TRUE, FALSE, 0), "")
            /\ UNCHANGED <<authServer, credentials, drive, tokenFile>>
    /\ upstream' = << >>
    /\ UNCHANGED <<isHttpMode, now, pending, utilVars, driveVars>>

\* The texts of gdrive_open_picker (index.ts:878, 886), with the port's
\* default (index.ts:60).
PickerOnlyInHttpMode ==
    "Error: The Google Picker is only available in HTTP mode (TRANSPORT=http). In stdio mode, files can only be accessed if they were created by this app."

PickerUrl ==
    "Ask the user to open this URL in their browser to select files:\n\nhttp://localhost:3000\n\nAfter they select files and see the confirmation, those files will be accessible via gdrive_get_file, gdrive_search_files, and other tools."

\* Mutant: the handler without its check of the transport.
gdrive_open_picker_NoModeCheck ==
    /\ invocation' = [tool |-> "gdrive_open_picker",
                      failed |-> ~isAuthenticated(credentials, drive),
                      failedAt |-> 0,
                      caught |-> IF isAuthenticated(credentials, drive)
                                 THEN NoError ELSE NotAuthenticated(isHttpMode)]
    /\ result' = handlerResult(~isAuthenticated(credentials, drive),
                               NotAuthenticated(isHttpMode), PickerUrl)
    /\ upstream' = << >>
    /\ UNCHANGED <<isHttpMode, storeVars, utilVars, driveVars>>

\* The handler of gdrive_open_picker (index.ts:874-895): an error result of
\* its own in stdio mode, else ensureAuthenticated and the Picker's URL.
gdrive_open_picker ==
    /\ IF ~isHttpMode
       THEN /\ invocation' = [tool |-> "gdrive_open_picker", failed |-> FALSE,
                              failedAt |-> 0, caught |-> NoError]
            /\ result' = [text |-> PickerOnlyInHttpMode, isError |-> TRUE, threw |-> FALSE]
       ELSE /\ invocation' = [tool |-> "gdrive_open_picker",
                              failed |-> ~isAuthenticated(credentials, drive),
                              failedAt |-> 0,
                              caught |-> IF isAuthenticated(credentials, drive)
                                         THEN NoError ELSE NotAuthenticated(isHttpMode)]
            /\ result' = handlerResult(~isAuthenticated(credentials, drive),
                                       NotAuthenticated(isHttpMode), PickerUrl)
    /\ upstream' = << >>
    /\ UNCHANGED <<isHttpMode, storeVars, utilVars, driveVars>>

\* The second answer is drawn only for a handler that makes a second call,
\* and include_content only for the tool that has it.
NextTools ==
    \/ \E tool \in FileTools :
          \E include_content \in (IF tool = "gdrive_get_file" THEN BOOLEAN ELSE { FALSE }),
             a1 \in Answers(credentials, now, authServer) :
             \E a2 \in (IF a1.ok /\ secondCall(tool, include_content, a1.mimeType) # ""
                        THEN Answers(credentials, now, authServer) ELSE { a1 }) :
                fileTool(tool, include_content, a1, a2)
    \/ \E code \in Codes, outcome \in WriteOutcomes : gdrive_set_credentials(code, outcome)
    \/ gdrive_open_picker

SpecTools == InitTools /\ [][NextTools]_vars

\* The file tools next to getFreshAccessToken, over a process that starts
\* after an earlier one exchanged a code: the authorization server knows the
\* refresh token it issued then, and the token file may hold that refresh
\* token alone.  The clock stands still.
InitGate ==
    /\ pc = "gate"
    /\ UtilsIdle
    /\ DriveIdle
    /\ isHttpMode \in BOOLEAN
    /\ tokenFile \in
         { AbsentFile,
           RecordFile(Credentials(undefinedOf("access_token"), string(refreshTokenName(1)),
                                  undefinedOf("expiry_date"))),
           RecordFile(Credentials(string(accessTokenName(1)), string(refreshTokenName(1)),
                                  number(1))) }
    /\ credentials = loadedCredentials(tokenFile)
    /\ drive = loadedDrive(tokenFile)
    /\ now = 0
    /\ authServer = serverAfterExchange(NewServer, 0)
    /\ pending = {}
    /\ last = Completed("constructor", "returned", "", "none", NoCredentials)
    /\ invocation = [tool |-> "none", failed |-> FALSE, failedAt |-> 0, caught |-> NoError]
    /\ upstream = << >>
    /\ result = [text |-> "", isError |-> FALSE, threw |-> FALSE]

NextGate ==
    \/ \E tool \in FileTools :
          \E include_content \in (IF tool = "gdrive_get_file" THEN BOOLEAN ELSE { FALSE }),
             a1 \in Answers(credentials, now, authServer) :
             \E a2 \in (IF a1.ok /\ secondCall(tool, include_content, a1.mimeType) # ""
                        THEN Answers(credentials, now, authServer) ELSE { a1 }) :
                fileTool(tool, include_content, a1, a2)
    \/ \E outcome \in WriteOutcomes : getFreshAccessTokenHeld(outcome)
    \/ getFreshAccessTokenNoRefreshToken
    \/ getFreshAccessTokenCall
    \/ \E p \in pending, outcome \in WriteOutcomes : getFreshAccessTokenReturn(p, outcome)

SpecGate == InitGate /\ [][NextGate]_vars

(***************************************************************************)
(* The listing handlers and the Drive API (index.ts:227-281, 322-377)      *)
(***************************************************************************)

\* The failures a call through the Drive client can get, and whether the
\* API can answer it at all.
Failures(c, t, server) == { a.error : a \in { b \in Answers(c, t, server) : ~b.ok } }
Answered(c, t, server) == \E a \in Answers(c, t, server) : a.ok

\* A Drive with every file in it.
FullDrive ==
    [f \in FileIds |-> File(IF f = "f1" THEN "a.txt" ELSE "b.txt", "old")]

\* The file resource the API returns for a file.
Resource(d, id) == [id |-> id, name |-> d[id].name]

\* The sequences without repetition of at most n elements of S.
RECURSIVE Arrangements(_, _)
Arrangements(S, n) ==
    IF n = 0 THEN { << >> }
    ELSE { << >> } \cup
         UNION { { << x >> \o rest : rest \in Arrangements(S \ { x }, n - 1) } : x \in S }

\* The pages files.list can answer: the resources of some files in the
\* order the API chose, or no files property at all.
Pages(d) ==
    { Some([i \in 1..Len(ids) |-> Resource(d, ids[i])]) :
        ids \in Arrangements({ f \in FileIds : d[f].exists }, MaxPage) }
      \cup { Undefined(<< >>) }

\* The nextPageToken of an answer: absent, null, empty or a cursor.
Cursors ==
    { undefinedOf("nextPageToken"), nullOf("nextPageToken"), string(""), string("tok2") }

ListResponses(d) ==
    { [ok |-> TRUE, error |-> NoError, files |-> page, nextPageToken |-> cursor] :
        page \in Pages(d), cursor \in Cursors }

ListFailure(e) ==
    [ok |-> FALSE, error |-> e, files |-> Undefined(<< >>),
     nextPageToken |-> undefinedOf("nextPageToken")]

\* The arguments of drive.files.list that depend on the input
\* (index.ts:237-243, 334-339).
listRequest_NoPageToken(q, page_token) ==
    [method |-> "files.list", q |-> q, pageToken |-> Undefined("")]

listRequest(q, page_token) ==
    [method |-> "files.list", q |-> q, pageToken |-> page_token]

\* One entry of the result for one file of the answer (index.ts:245-256).
fileEntry(file) == [id |-> file.id, name |-> file.name]

\* The FileListResult of an answer (index.ts:245-266): the files property or
\* the empty list mapped in place, its length twice, and the cursor when it
\* is truthy.
fileListResult_HasMoreWhenDefined(data) ==
    LET list == IF data.files.defined THEN data.files.value ELSE << >>
        entries == [i \in 1..Len(list) |-> fileEntry(list[i])]
    IN  [kind |-> "list", total |-> Len(entries), count |-> Len(entries), files |-> entries,
         has_more |-> data.nextPageToken.kind # "undefined",
         next_page_token |-> IF truthy(data.nextPageToken)
                             THEN Some(data.nextPageToken.value) ELSE Undefined("")]

fileListResult(data) ==
    LET list == IF data.files.defined THEN data.files.value ELSE << >>
        entries == [i \in 1..Len(list) |-> fileEntry(list[i])]
    IN  [kind |-> "list", total |-> Len(entries), count |-> Len(entries), files |-> entries,
         has_more |-> truthy(data.nextPageToken),
         next_page_token |-> IF truthy(data.nextPageToken)
                             THEN Some(data.nextPageToken.value) ELSE Undefined("")]

\* What both listing handlers do with their query: ensureAuthenticated,
\* getDrive, one files.list, the result of its answer.
listFiles(tool, q, page_token, response) ==
    LET gate == ~isAuthenticated(credentials, drive)
        noClient == ~gate /\ getDriveThrows(drive)
        called == ~gate /\ ~noClient
        failed == ~called \/ ~response.ok
        caught == IF gate THEN NotAuthenticated(isHttpMode)
                  ELSE IF noClient THEN NoDriveClient
                  ELSE response.error
    IN  /\ invocation' = [tool |-> tool, failed |-> failed,
                          failedAt |-> IF called /\ failed THEN 1 ELSE 0,
                          caught |-> IF failed THEN caught ELSE NoError]
        /\ upstream' = IF called THEN << "files.list" >> ELSE << >>
        /\ requests' = IF called THEN << listRequest(q, page_token) >> ELSE << >>
        /\ responses' = IF called THEN << response >> ELSE << >>
        /\ structured' = IF failed THEN NoStructured ELSE fileListResult(response)
        /\ result' = handlerResult(failed, caught, "result of " \o tool)
        /\ UNCHANGED <<isHttpMode, storeVars, utilVars, files>>

\* The handler of gdrive_list_files (index.ts:227-281).
gdrive_list_files(in, response) ==
    /\ input' = in
    /\ listFiles("gdrive_list_files",
                 buildSearchQuery([NoPredicate EXCEPT !.parent_id = in.parent_id,
                                                      !.trashed = Some(FALSE)]),
                 in.page_token, response)

\* The handler of gdrive_search_files (index.ts:322-377).
gdrive_search_files(in, response) ==
    /\ input' = in
    /\ listFiles("gdrive_search_files",
                 buildSearchQuery([query |-> Some(in.query), mime_type |-> in.mime_type,
                                   parent_id |-> in.parent_id, trashed |-> Some(FALSE)]),
                 in.page_token, response)

\* The inputs the schemas let through (input-schemas.ts:6-27, 31-53):
\* page_token is any string or absent, query is not empty.
PageTokens == { Undefined(""), Some(""), Some("tok1") }

ListInputs ==
    [ parent_id : { Undefined(""), Some("abc123") }, page_token : PageTokens ]

SearchInputs ==
    [ query : { "a'b" }, mime_type : { Undefined(""), Some("text/plain") },
      parent_id : { Some("abc123") }, page_token : PageTokens ]

\* The answers of the API to a listing: a page and a cursor, or a failure.
ListAnswers ==
    (IF Answered(credentials, now, authServer) THEN ListResponses(files) ELSE {})
      \cup { ListFailure(e) : e \in Failures(credentials, now, authServer) }

InitList ==
    /\ pc = "list"
    /\ UtilsIdle
    /\ isHttpMode = FALSE
    /\ tokenFile \in InitialFiles
    /\ credentials = loadedCredentials(tokenFile)
    /\ drive = loadedDrive(tokenFile)
    /\ now = 0
    /\ authServer = NewServer
    /\ pending = {}
    /\ last = Completed("constructor", "returned", "", "none", NoCredentials)
    /\ invocation = [tool |-> "none", failed |-> FALSE, failedAt |-> 0, caught |-> NoError]
    /\ upstream = << >>
    /\ result = [text |-> "", isError |-> FALSE, threw |-> FALSE]
    /\ input = NoInput
    /\ files = FullDrive
    /\ requests = << >>
    /\ responses = << >>
    /\ structured = NoStructured

NextList ==
    \/ \E in \in ListInputs, response \in ListAnswers : gdrive_list_files(in, response)
    \/ \E in \in SearchInputs, response \in ListAnswers : gdrive_search_files(in, response)

SpecList == InitList /\ [][NextList]_vars

(***************************************************************************)
(* The handlers that change files (index.ts:520-563, 674-716, 750-769)     *)
(***************************************************************************)

\* What the Drive API does to the files for a request it accepts: a delete
\* removes the file, a create adds one with the metadata's name and the
\* media's body, empty without media, an update replaces the name the
\* metadata has and the content the media has and keeps the rest.
driveAfterDelete(d, request) == [d EXCEPT ![request.fileId] = NoFile]

driveAfterCreate(d, id, request) ==
    [d EXCEPT ![id] = File(request.name,
                           IF request.media.defined THEN request.media.body ELSE "")]

driveAfterUpdate(d, request) ==
    [d EXCEPT ![request.fileId] =
        File(IF request.name.defined THEN request.name.value ELSE @.name,
             IF request.media.defined THEN request.media.body ELSE @.content)]

\* The answer of the API about a file, and its failure.
FileResponse(id, name) == [ok |-> TRUE, error |-> NoError, id |-> id, name |-> name]
FileFailure(e) == [ok |-> FALSE, error |-> e, id |-> "", name |-> ""]

\* The answers to a request about file id of Drive d: its resource when it
\* is there and the API answers, or a failure.
FileAnswers(d, id) ==
    (IF Answered(credentials, now, authServer) /\ d[id].exists
     THEN { FileResponse(id, d[id].name) } ELSE {})
      \cup { FileFailure(e) : e \in Failures(credentials, now, authServer) }

\* The ids the API can give a new file.
NewIds(d) ==
    IF Answered(credentials, now, authServer) THEN { f \in FileIds : ~d[f].exists } ELSE {}

\* The media of a create or an update (index.ts:534-537, 684-687): the
\* content as the body when the content is truthy, else none.
media_WhenDefined(mimeType, content) ==
    IF content.defined
    THEN [defined |-> TRUE, mimeType |-> mimeType, body |-> content.value]
    ELSE [defined |-> FALSE, mimeType |-> "", body |-> ""]

media(mimeType, content) ==
    IF Truthy(content)
    THEN [defined |-> TRUE, mimeType |-> mimeType, body |-> content.value]
    ELSE [defined |-> FALSE, mimeType |-> "", body |-> ""]

\* The requests of the three handlers (index.ts:756, 757, 539-543, 689-696).
getNameRequest(in) == [method |-> "files.get", fileId |-> in.file_id, fields |-> "name"]
deleteRequest(in) == [method |-> "files.delete", fileId |-> in.file_id]

createRequest(in) ==
    [method |-> "files.create", name |-> in.name, mimeType |-> in.mime_type,
     parents |-> IF Truthy(in.parent_id) THEN << in.parent_id.value >> ELSE << >>,
     media |-> media(in.mime_type, in.content)]

updateRequest(in) ==
    [method |-> "files.update", fileId |-> in.file_id,
     name |-> IF Truthy(in.name) THEN in.name ELSE Undefined(""),
     media |-> media("text/plain", in.content)]

\* The part every file handler starts with: ensureAuthenticated and getDrive.
Refused == ~isAuthenticated(credentials, drive) \/ getDriveThrows(drive)
Refusal == IF ~isAuthenticated(credentials, drive) THEN NotAuthenticated(isHttpMode)
           ELSE NoDriveClient

\* Mutant: the handler deletes first and fetches the name of what is left.
gdrive_delete_file_DeleteFirst(in, a1, a2) ==
    LET failed == Refused \/ ~a1.ok \/ ~a2.ok
        caught == IF Refused THEN Refusal ELSE IF ~a1.ok THEN a1.error ELSE a2.error
    IN  /\ input' = in
        /\ invocation' = [tool |-> "gdrive_delete_file", failed |-> failed,
                          failedAt |-> IF Refused \/ ~failed THEN 0 ELSE IF ~a1.ok THEN 1 ELSE 2,
                          caught |-> IF failed THEN caught ELSE NoError]
        /\ requests' = IF Refused THEN << >>
                       ELSE IF ~a1.ok THEN << deleteRequest(in) >>
                       ELSE << deleteRequest(in), getNameRequest(in) >>
        /\ upstream' = [i \in 1..Len(requests') |-> requests'[i].method]
        /\ responses' = IF Refused THEN << >> ELSE IF ~a1.ok THEN << a1 >> ELSE << a1, a2 >>
        /\ files' = IF ~Refused /\ a1.ok THEN driveAfterDelete(files, deleteRequest(in))
                    ELSE files
        /\ structured' = IF failed THEN NoStructured
                         ELSE [kind |-> "deleted", id |-> in.file_id, name |-> a2.name]
        /\ result' = handlerResult(failed, caught,
               "Successfully deleted \"" \o a2.name \o "\" (ID: " \o in.file_id \o ")")
        /\ UNCHANGED <<isHttpMode, storeVars, utilVars>>

\* The handler of gdrive_delete_file (index.ts:750-769): the name is fetched,
\* then the file is deleted, then the two are reported.
gdrive_delete_file(in, a1, a2) ==
    LET failed == Refused \/ ~a1.ok \/ ~a2.ok
        caught == IF Refused THEN Refusal ELSE IF ~a1.ok THEN a1.error ELSE a2.error
    IN  /\ input' = in
        /\ invocation' = [tool |-> "gdrive_delete_file", failed |-> failed,
                          failedAt |-> IF Refused \/ ~failed THEN 0 ELSE IF ~a1.ok THEN 1 ELSE 2,
                          caught |-> IF failed THEN caught ELSE NoError]
        /\ requests' = IF Refused THEN << >>
                       ELSE IF ~a1.ok THEN << getNameRequest(in) >>
                       ELSE << getNameRequest(in), deleteRequest(in) >>
        /\ upstream' = [i \in 1..Len(requests') |-> requests'[i].method]
        /\ responses' = IF Refused THEN << >> ELSE IF ~a1.ok THEN << a1 >> ELSE << a1, a2 >>
        /\ files' = IF ~failed THEN driveAfterDelete(files, deleteRequest(in)) ELSE files
        /\ structured' = IF failed THEN NoStructured
                         ELSE [kind |-> "deleted", id |-> in.file_id, name |-> a1.name]
        /\ result' = handlerResult(failed, caught,
               "Successfully deleted \"" \o a1.name \o "\" (ID: " \o in.file_id \o ")")
        /\ UNCHANGED <<isHttpMode, storeVars, utilVars>>

\* The handler of gdrive_create_file (index.ts:520-563); id is the id the
\* API gives the file, and the answer carries no webViewLink.
gdrive_create_file(in, id, a) ==
    LET failed == Refused \/ ~a.ok
        caught == IF Refused THEN Refusal ELSE a.error
    IN  /\ input' = in
        /\ invocation' = [tool |-> "gdrive_create_file", failed |-> failed,
                          failedAt |-> IF ~Refused /\ failed THEN 1 ELSE 0,
                          caught |-> IF failed THEN caught ELSE NoError]
        /\ requests' = IF Refused THEN << >> ELSE << createRequest(in) >>
        /\ upstream' = [i \in 1..Len(requests') |-> requests'[i].method]
        /\ responses' = IF Refused THEN << >> ELSE << a >>
        /\ files' = IF ~failed THEN driveAfterCreate(files, id, createRequest(in)) ELSE files
        /\ structured' = IF failed THEN NoStructured
                         ELSE [kind |-> "file", id |-> a.id, name |-> a.name]
        /\ result' = handlerResult(failed, caught,
               "Successfully created file: " \o a.name \o "\nID: " \o a.id \o "\nLink: N/A")
        /\ UNCHANGED <<isHttpMode, storeVars, utilVars>>

\* The handler of gdrive_update_file (index.ts:674-716), without its moves
\* between folders; the answer carries the file as the update left it.
gdrive_update_file(in, a) ==
    LET failed == Refused \/ ~a.ok
        caught == IF Refused THEN Refusal ELSE a.error
    IN  /\ input' = in
        /\ invocation' = [tool |-> "gdrive_update_file", failed |-> failed,
                          failedAt |-> IF ~Refused /\ failed THEN 1 ELSE 0,
                          caught |-> IF failed THEN caught ELSE NoError]
        /\ requests' = IF Refused THEN << >> ELSE << updateRequest(in) >>
        /\ upstream' = [i \in 1..Len(requests') |-> requests'[i].method]
        /\ responses' = IF Refused THEN << >> ELSE << a >>
        /\ files' = IF ~failed THEN driveAfterUpdate(files, updateRequest(in)) ELSE files
        /\ structured' = IF failed THEN NoStructured
                         ELSE [kind |-> "file", id |-> a.id, name |-> a.name]
        /\ result' = handlerResult(failed, caught,
               "Successfully updated file: " \o a.name \o "\nID: " \o a.id)
        /\ UNCHANGED <<isHttpMode, storeVars, utilVars>>

\* The inputs the schemas let through (input-schemas.ts:71-107, 111-117):
\* a name is not empty, a content is any string or absent.
Contents == { Undefined(""), Some(""), Some("new") }

DeleteInputs == [ file_id : FileIds ]

CreateInputs ==
    [ name : { "c.txt" }, mime_type : { "text/plain" },
      parent_id : { Some("abc123") }, content : Contents ]

UpdateInputs ==
    [ file_id : FileIds, name : { Undefined(""), Some("c.txt") }, content : Contents ]

InitFiles ==
    /\ pc = "files"
    /\ UtilsIdle
    /\ isHttpMode = FALSE
    /\ tokenFile \in InitialFiles
    /\ credentials = loadedCredentials(tokenFile)
    /\ drive = loadedDrive(tokenFile)
    /\ now = 0
    /\ authServer = NewServer
    /\ pending = {}
    /\ last = Completed("constructor", "returned", "", "none", NoCredentials)
    /\ invocation = [tool |-> "none", failed |-> FALSE, failedAt |-> 0, caught |-> NoError]
    /\ upstream = << >>
    /\ result = [text |-> "", isError |-> FALSE, threw |-> FALSE]
    /\ input = NoInput
    /\ files = [f \in FileIds |-> IF f = "f1" THEN File("a.txt", "old") ELSE NoFile]
    /\ requests = << >>
    /\ responses = << >>
    /\ structured = NoStructured

\* The second answer is drawn only when the first call was answered; the
\* answer to a create or an update tells of the file as the request left it.
NextFiles ==
    \/ \E in \in DeleteInputs : \E a1 \in FileAnswers(files, in.file_id) :
          \E a2 \in (IF a1.ok THEN FileAnswers(files, in.file_id) ELSE { a1 }) :
             gdrive_delete_file(in, a1, a2)
    \/ \E in \in CreateInputs :
          \/ \E id \in NewIds(files) :
                gdrive_create_file(in, id, FileResponse(id, createRequest(in).name))
          \/ \E e \in Failures(credentials, now, authServer) :
                gdrive_create_file(in, "", FileFailure(e))
    \/ \E in \in UpdateInputs :
          \E a \in FileAnswers(driveAfterUpdate(files, updateRequest(in)), in.file_id) :
             gdrive_update_file(in, a)

SpecFiles == InitFiles /\ [][NextFiles]_vars

(***************************************************************************)
(* Properties of the authentication tools                                  *)
(***************************************************************************)

\* C22: in HTTP mode a step of the gdrive_set_credentials handler exchanges
\* no code with the authorization server and leaves the credentials, the
\* Drive client and the token file as they were.
C22_SetCredentialsInertInHttpMode ==
    [][(isHttpMode /\ invocation'.tool = "gdrive_set_credentials")
         => UNCHANGED <<authServer, credentials, drive, tokenFile>>]_vars

\* C23: a step of the gdrive_open_picker handler changes neither the store
\* nor the mode and calls nothing; in stdio mode it returns its own error
\* text with the error flag whatever the store holds; in HTTP mode it returns
\* the Picker's URL without the flag exactly when the store is authenticated,
\* and else the 'Not authenticated' guidance with the flag.  No step of any
\* handler changes the mode.
C23_PickerByMode ==
    /\ [][isHttpMode' = isHttpMode]_vars
    /\ [][invocation'.tool = "gdrive_open_picker" =>
            /\ UNCHANGED <<storeVars, files>>
            /\ upstream' = << >>
            /\ ~isHttpMode =>
                 result' = [text |-> PickerOnlyInHttpMode, isError |-> TRUE, threw |-> FALSE]
            /\ (isHttpMode /\ isAuthenticated(credentials, drive)) =>
                 result' = [text |-> PickerUrl, isError |-> FALSE, threw |-> FALSE]
            /\ (isHttpMode /\ ~isAuthenticated(credentials, drive)) =>
                 result' = [text |-> formatError(NotAuthenticated(TRUE)), isError |-> TRUE,
                            threw |-> FALSE]]_vars

\* The picker was refused in stdio mode although the store is authenticated.
C23_Witness ==
    /\ invocation.tool = "gdrive_open_picker"
    /\ ~isHttpMode
    /\ isAuthenticated(credentials, drive)
    /\ result.isError /\ result.text = PickerOnlyInHttpMode

\* The picker answered with its URL in HTTP mode.
C23_WitnessHttp ==
    /\ invocation.tool = "gdrive_open_picker"
    /\ isHttpMode
    /\ result = [text |-> PickerUrl, isError |-> FALSE, threw |-> FALSE]

\* C25: a step of a file tool's handler taken while isAuthenticated() is
\* false returns the 'Not authenticated' guidance of the mode with the error
\* flag, calls nothing upstream and leaves the credentials, the Drive client
\* and the token file as they were.
C25_AuthenticationGate ==
    [][(invocation'.tool \in FileTools /\ ~isAuthenticated(credentials, drive)) =>
         /\ result' =
              [text |-> IF isHttpMode
                        THEN "Error: Not authenticated. Ask the user to visit http://localhost:3000 and sign in with Google."
                        ELSE "Error: Not authenticated. Call gdrive_authenticate to get an auth URL, then ask the user to visit it and provide the code to gdrive_set_credentials.",
               isError |-> TRUE, threw |-> FALSE]
         /\ upstream' = << >>
         /\ UNCHANGED <<credentials, drive, tokenFile, authServer>>]_vars

\* gdrive_copy_file was refused in HTTP mode on a store without credentials.
C25_Witness ==
    /\ invocation.tool = "gdrive_copy_file"
    /\ isHttpMode
    /\ ~isAuthenticated(credentials, drive)
    /\ result.isError
    /\ StartsWith(result.text, "Error: Not authenticated. Ask the user")
    /\ upstream = << >>

\* The store holds a refresh token and no access token.
RefreshTokenOnly ==
    credentials.access_token.kind = "undefined" /\ truthy(credentials.refresh_token)

Listed ==
    /\ invocation.tool \in { "gdrive_list_files", "gdrive_search_files" }
    /\ Len(responses) = 1
    /\ responses[1].ok

\* C21: a listing handler hands the caller's page_token to files.list as it
\* is, absent when absent and empty when empty, and returns the cursor of the
\* answer as next_page_token as it is; when the answer has no cursor, or an
\* empty or null one, the result has no next_page_token.
C21_CursorThreading ==
    /\ (invocation.tool \in { "gdrive_list_files", "gdrive_search_files" } /\ requests # << >>)
         => /\ Len(requests) = 1
            /\ requests[1].method = "files.list"
            /\ requests[1].pageToken = input.page_token
    /\ Listed =>
         /\ structured.kind = "list"
         /\ truthy(responses[1].nextPageToken)
              => structured.next_page_token = Some(responses[1].nextPageToken.value)
         /\ ~truthy(responses[1].nextPageToken)
              => ~structured.next_page_token.defined

C21_Witness ==
    /\ Listed
    /\ input.page_token = Some("tok1")
    /\ requests[1].pageToken = Some("tok1")
    /\ structured.next_page_token = Some("tok2")

\* The files of the answer to the listing, none when it has no such property.
UpstreamFiles == IF responses[1].files.defined THEN responses[1].files.value ELSE << >>

\* C29: in the result of a listing, total and count are both the number of
\* entries of files, the entries are the files of the answer in the answer's
\* order, and has_more is true exactly when next_page_token is there, which
\* is then not empty.
C29_FileListResult ==
    Listed =>
       /\ structured.total = Len(structured.files)
       /\ structured.count = Len(structured.files)
       /\ Len(structured.files) = Len(UpstreamFiles)
       /\ \A i \in 1..Len(UpstreamFiles) :
             /\ structured.files[i].id = UpstreamFiles[i].id
             /\ structured.files[i].name = UpstreamFiles[i].name
       /\ structured.has_more <=> structured.next_page_token.defined
       /\ structured.next_page_token.defined => structured.next_page_token.value # ""

\* A page of two files, f2 before f1, with a cursor.
C29_Witness ==
    /\ Listed
    /\ structured.total = 2
    /\ structured.files[1].id = "f2" /\ structured.files[2].id = "f1"
    /\ structured.has_more

\* An answer with an empty cursor: no more pages and no next_page_token.
C29_WitnessEmptyCursor ==
    /\ Listed
    /\ responses[1].nextPageToken = string("")
    /\ ~structured.has_more

(***************************************************************************)
(* Properties of the handlers that change files                            *)
(***************************************************************************)

\* C24: a step of the gdrive_delete_file handler asks for the name of the
\* requested file first and deletes second; when the name is refused, no
\* delete is requested and the files stay as they were; a result without the
\* error flag is returned only when the delete was answered, and its payload
\* is the requested id with the name the first call fetched.
C24_DeleteOrdering ==
    [][invocation'.tool = "gdrive_delete_file" =>
         /\ Len(requests') <= 2
         /\ requests' # << >> =>
              requests'[1] = [method |-> "files.get", fileId |-> input'.file_id,
                              fields |-> "name"]
         /\ Len(requests') = 2 =>
              /\ responses'[1].ok
              /\ requests'[2] = [method |-> "files.delete", fileId |-> input'.file_id]
         /\ (requests' = << >> \/ ~responses'[1].ok) =>
              /\ Len(requests') <= 1
              /\ files' = files
              /\ result'.isError
         /\ result'.isError => (structured' = NoStructured /\ files' = files)
         /\ ~result'.isError =>
              /\ Len(responses') = 2 /\ responses'[2].ok
              /\ structured' = [kind |-> "deleted", id |-> input'.file_id,
                                name |-> files[input'.file_id].name]
              /\ structured'.name = responses'[1].name
              /\ ~files'[input'.file_id].exists]_vars

\* f1 was deleted and the payload carries its id and its name.
C24_Witness ==
    /\ invocation.tool = "gdrive_delete_file"
    /\ ~result.isError
    /\ structured = [kind |-> "deleted", id |-> "f1", name |-> "a.txt"]
    /\ Len(requests) = 2
    /\ ~files["f1"].exists

\* The name was refused and the file is still there.
C24_WitnessRefused ==
    /\ invocation.tool = "gdrive_delete_file"
    /\ Len(requests) = 1 /\ ~responses[1].ok
    /\ files[input.file_id].exists

B2N(b) == IF b THEN 1 ELSE 0

\* Where the clause of a supplied non-empty field sits in `conditions`
\* (the mime_type clause, when there is one, is the first).
ParentIdx == B2N(Truthy(params.mime_type)) + 1
QueryIdx == B2N(Truthy(params.mime_type)) + B2N(Truthy(params.parent_id)) + 1

\* Position in `filter` of the first character of the k-th clause.
RECURSIVE ClauseStart(_)
ClauseStart(k) ==
    IF k = 1 THEN 1 ELSE ClauseStart(k - 1) + Len(conditions[k - 1]) + Len(" and ")

QuoteCount(v, i) == Cardinality({ j \in 1..i : CharAt(v, j) = "'" })

\* e is v with a backslash put before each single quote and nothing else changed.
EscapedCopy(v, e) ==
    /\ Len(e) = Len(v) + QuoteCount(v, Len(v))
    /\ \A i \in 1..Len(v) :
         LET k == i + QuoteCount(v, i) IN
           /\ CharAt(e, k) = CharAt(v, i)
           /\ CharAt(v, i) = "'" => CharAt(e, k - 1) = "\\"

\* The k-th clause is prefix, then an escaped copy of v, then a closing quote.
EscapedClause(k, prefix, v) ==
    LET c == conditions[k] IN
      /\ StartsWith(c, prefix)
      /\ EndsWith(c, "'")
      /\ Len(c) >= Len(prefix) + 1
      /\ EscapedCopy(v, SubSeq(c, Len(prefix) + 1, Len(c) - 1))
      /\ SubSeq(filter, ClauseStart(k), ClauseStart(k) + Len(c) - 1) = c

\* C1: in the clause of every query and mime_type value each single quote is
\* preceded by a backslash and every other character is copied unchanged;
\* query "it's" yields the clause name contains 'it\'s'.
C1_QuotesEscaped ==
    pc = "done" =>
      /\ Truthy(params.query) =>
           EscapedClause(QueryIdx, "name contains '", params.query.value)
      /\ Truthy(params.mime_type) =>
           EscapedClause(1, "mimeType='", params.mime_type.value)
      /\ params.query = Some("it's") => Contains(filter, "name contains 'it\\'s'")

C1_Witness ==
    /\ pc = "done"
    /\ params.query = Some("it's")
    /\ params.mime_type = Some("'a'")

\* Reading s from position i (just after an opening quote) with backslash as
\* the escape character: the position of the quote that closes the literal,
\* 0 when the literal is never closed.
RECURSIVE LiteralEnd(_, _)
LiteralEnd(s, i) ==
    IF i > Len(s) THEN 0
    ELSE IF CharAt(s, i) = "\\" THEN LiteralEnd(s, i + 2)
    ELSE IF CharAt(s, i) = "'" THEN i
    ELSE LiteralEnd(s, i + 1)

ClosesAtOwnQuote(k, prefix) ==
    LiteralEnd(filter, ClauseStart(k) + Len(prefix))
      = ClauseStart(k) + Len(conditions[k]) - 1

\* C2: reading the built filter with backslash as the escape character, the
\* literal opened for the mimeType= clause and for the name contains clause
\* closes only at the quote the builder appended.
C2_LiteralClosesAtBuilderQuote ==
    pc = "done" =>
      /\ Truthy(params.query) => ClosesAtOwnQuote(QueryIdx, "name contains '")
      /\ Truthy(params.mime_type) => ClosesAtOwnQuote(1, "mimeType='")

HasQuote(opt) == opt.defined /\ Contains(opt.value, "'")

\* C3 as stated: a query or mime_type input that contains a single quote is
\* never a substring of the built filter.
C3_RawInputNeverVerbatim ==
    pc = "done" =>
      /\ HasQuote(params.query) => ~Contains(filter, params.query.value)
      /\ HasQuote(params.mime_type) => ~Contains(filter, params.mime_type.value)

\* v holds a single quote that has a character before it other than
\* backslash, '=' and space, and a character after it other than space.
HasDelimitedQuote(v) ==
    \E i \in 2..(Len(v) - 1) :
      /\ CharAt(v, i) = "'"
      /\ CharAt(v, i - 1) \notin {"\\", "=", " "}
      /\ CharAt(v, i + 1) # " "

\* C3 as amended: when parent_id holds no single quote, a query or mime_type
\* input with such a delimited quote is never a substring of the built
\* filter (the test's mime_type "text/plain'; trashed=false" is one).
C3_DelimitedRawInputNeverVerbatim ==
    (pc = "done" /\ ~HasQuote(params.parent_id)) =>
      /\ (params.query.defined /\ HasDelimitedQuote(params.query.value))
           => ~Contains(filter, params.query.value)
      /\ (params.mime_type.defined /\ HasDelimitedQuote(params.mime_type.value))
           => ~Contains(filter, params.mime_type.value)

C3_Witness ==
    /\ pc = "done"
    /\ ~HasQuote(params.parent_id)
    /\ params.mime_type = Some("text/plain'; trashed=false")
    /\ params.query = Some("a'a")

StringFields == { params.mime_type, params.parent_id, params.query }

\* C4 as stated: with trashed unspecified the filter contains trashed=false
\* and not trashed=true; with trashed=true it contains trashed=true and not
\* trashed=false.
C4_TrashedSubstring ==
    pc = "done" =>
      /\ ~params.trashed.defined =>
           Contains(filter, "trashed=false") /\ ~Contains(filter, "trashed=true")
      /\ params.trashed = Some(TRUE) =>
           Contains(filter, "trashed=true") /\ ~Contains(filter, "trashed=false")

\* C4 as amended: the filter ends with the clause trashed=false (trashed
\* unspecified) or trashed=true (trashed=true given), and holds the opposite
\* text only when a supplied string value itself holds it.
C4_TrashedClause ==
    pc = "done" =>
      /\ ~params.trashed.defined =>
           /\ EndsWith(filter, "trashed=false")
           /\ Contains(filter, "trashed=true") =>
                \E f \in StringFields : Truthy(f) /\ Contains(f.value, "trashed=true")
      /\ params.trashed = Some(TRUE) =>
           /\ EndsWith(filter, "trashed=true")
           /\ Contains(filter, "trashed=false") =>
                \E f \in StringFields : Truthy(f) /\ Contains(f.value, "trashed=false")

C4_Witness ==
    /\ pc = "done"
    /\ params.trashed = Some(TRUE)
    /\ params.mime_type = Some("text/plain'; trashed=false")
    /\ Contains(filter, "trashed=false")
    /\ EndsWith(filter, "trashed=true")

TrashedClauses == { "trashed=true", "trashed=false" }

\* C5: the filter is the ' and '-join of the clauses in the order mime_type,
\* parent_id, query, trashed, with exactly one trashed clause, the last;
\* {} yields "trashed=false" and {mime_type:"a/b"} yields
\* "mimeType='a/b' and trashed=false".
C5_ClauseOrder ==
    pc = "done" =>
      LET n == Len(conditions) IN
        /\ n = QueryIdx + B2N(Truthy(params.query))
        /\ Truthy(params.mime_type) => StartsWith(conditions[1], "mimeType='")
        /\ Truthy(params.parent_id) =>
             conditions[ParentIdx] = "'" \o params.parent_id.value \o "' in parents"
        /\ Truthy(params.query) => StartsWith(conditions[QueryIdx], "name contains '")
        /\ conditions[n] = (IF params.trashed = Some(TRUE) THEN "trashed=true"
                                                           ELSE "trashed=false")
        /\ { k \in 1..n : conditions[k] \in TrashedClauses } = { n }
        /\ Len(filter) = ClauseStart(n) + Len(conditions[n]) - 1
        /\ \A k \in 1..n :
             SubSeq(filter, ClauseStart(k), ClauseStart(k) + Len(conditions[k]) - 1)
               = conditions[k]
        /\ \A k \in 2..n :
             SubSeq(filter, ClauseStart(k) - Len(" and "), ClauseStart(k) - 1) = " and "
        /\ params = NoPredicate => filter = "trashed=false"
        /\ params = [NoPredicate EXCEPT !.mime_type = Some("a/b")]
             => filter = "mimeType='a/b' and trashed=false"

C5_Witness ==
    /\ pc = "done"
    /\ Truthy(params.mime_type) /\ Truthy(params.parent_id) /\ Truthy(params.query)
    /\ params.trashed = Some(FALSE)
    /\ Len(conditions) = 4

\* C6 as stated: every supplied string field, a supplied empty string
\* included, contributes one clause.
C6_ClausePerSuppliedField ==
    pc = "done" =>
      Len(conditions) = B2N(params.mime_type.defined) + B2N(params.parent_id.defined)
                          + B2N(params.query.defined) + 1

\* C6 as amended: every field supplied as a non-empty string contributes
\* exactly one clause and a supplied empty string contributes none.
C6_ClausePerNonEmptyField ==
    pc = "done" =>
      Len(conditions) = B2N(Truthy(params.mime_type)) + B2N(Truthy(params.parent_id))
                          + B2N(Truthy(params.query)) + 1

C6_Witness ==
    /\ pc = "done"
    /\ params.mime_type = Some("")
    /\ Truthy(params.query)
    /\ Len(conditions) = 2

\* Position in `filter` of the quote that opens the parent_id clause, and of
\* the one the builder appended after the value.
ParentOpen == ClauseStart(ParentIdx)
ParentClose == ParentOpen + Len(params.parent_id.value) + 1

\* C27 as stated: every supplied parent_id yields the clause
\* '<parent_id>' in parents with the value as it is, and when the value holds
\* a single quote the literal, read with backslash as the escape character,
\* closes before the quote the builder appended.
C27_ParentIdQuoteClosesLiteral ==
    pc = "done" =>
      /\ params.parent_id.defined =>
           conditions[ParentIdx] = "'" \o params.parent_id.value \o "' in parents"
      /\ HasQuote(params.parent_id) =>
           /\ LiteralEnd(filter, ParentOpen + 1) > 0
           /\ LiteralEnd(filter, ParentOpen + 1) < ParentClose

\* C27 as amended: every non-empty parent_id yields the clause
\* '<parent_id>' in parents with the value as it is, at its place in the
\* filter, and an empty one yields no clause; when the value holds a single
\* quote that no backslash escapes, the literal closes at the first such
\* quote, before the quote the builder appended, and what follows it in the
\* value is outside the literal; a value whose quotes all follow a backslash
\* does not close the literal within the value.
C27_ParentIdVerbatim ==
    pc = "done" =>
      /\ Truthy(params.parent_id) =>
           /\ conditions[ParentIdx] = "'" \o params.parent_id.value \o "' in parents"
           /\ SubSeq(filter, ParentOpen, ParentClose + Len(" in parents"))
                = conditions[ParentIdx]
           /\ LiteralEnd(params.parent_id.value, 1) > 0 =>
                /\ LiteralEnd(filter, ParentOpen + 1)
                     = ParentOpen + LiteralEnd(params.parent_id.value, 1)
                /\ LiteralEnd(filter, ParentOpen + 1) < ParentClose
           /\ LiteralEnd(params.parent_id.value, 1) = 0 =>
                ~(LiteralEnd(filter, ParentOpen + 1) \in (ParentOpen + 1)..(ParentClose - 1))
      /\ (params.parent_id.defined /\ ~Truthy(params.parent_id)) =>
           \A k \in 1..Len(conditions) : ~EndsWith(conditions[k], " in parents")

\* The value's quote closed the literal and the rest was read as a filter.
C27_Witness ==
    /\ pc = "done"
    /\ params.parent_id = Some("x' in parents or 'y")
    /\ Contains(filter, "'x' in parents or 'y' in parents")
    /\ LiteralEnd(filter, ParentOpen + 1) = ParentOpen + 2

(***************************************************************************)
(* Properties of truncateText                                              *)
(***************************************************************************)
Limit == effectiveLimit(limit)

\* The first n characters of s (all of s when it is shorter, none when n < 0).
FirstChars(s, n) == SubSeq(s, 1, IF n < 0 THEN 0 ELSE IF n < Len(s) THEN n ELSE Len(s))

\* C7: a text no longer than the limit is returned unchanged; a longer text
\* yields its first limit characters followed by a notice, the whole longer
\* than limit, the notice naming the original length and the shown length.
C7_TruncateContract ==
    pc \in {"done", "again"} =>
      IF Len(text) <= Limit
      THEN truncated = text
      ELSE /\ Len(truncated) > Limit
           /\ FirstChars(truncated, Limit) = FirstChars(text, Limit)
           /\ LET shown == Len(FirstChars(text, Limit))
                  notice == SubSeq(truncated, shown + 1, Len(truncated)) IN
             /\ Contains(notice, "truncated")
             /\ Contains(notice, "Total length: " \o numberToString(Len(text))
                                   \o " characters")
             /\ EndsWith(notice, "showing first " \o numberToString(Limit) \o "]")

C7_Witness ==
    /\ pc = "done"
    /\ text = Repeat("a", TestTextLen)
    /\ limit = Some(TestLimit)
    /\ StartsWith(truncated, Repeat("a", TestLimit))
    /\ Len(truncated) > TestLimit

\* C8: truncateText applied with the same limit to its own output keeps the
\* payload: the first limit characters of the second result equal those of
\* the first, and a text that was not truncated comes back unchanged.
C8_TruncateIdempotentPayload ==
    pc = "again" =>
      /\ FirstChars(retruncated, Limit) = FirstChars(truncated, Limit)
      /\ Len(text) <= Limit => retruncated = text

C8_Witness ==
    /\ pc = "again"
    /\ Len(text) > Limit
    /\ Limit > 0
    /\ retruncated # truncated
    /\ FirstChars(retruncated, Limit) = FirstChars(text, Limit)

(***************************************************************************)
(* Properties of formatError                                               *)
(***************************************************************************)
\* The value carries a `code` property that is the number c.
CarriesCode(e, c) == e.hasCode /\ e.codeIsNumber /\ e.code = c

\* The value is an Error instance with the numeric code c.
CodedError(e, c) == e.kind = "Error" /\ CarriesCode(e, c)

\* C9 as stated: every value that carries code 429, the plain object
\* {code:429} included, is answered with text containing "Rate limit".
C9_RateLimitForAnyCodeCarrier ==
    (pc = "done" /\ CarriesCode(error, 429)) => Contains(message, "Rate limit")

\* C9 as amended: an Error instance with the numeric code 429 is answered
\* with the rate-limit guidance, whatever its message; a value that is no
\* Error, such as the plain object {code:429}, is answered with
\* "Unknown error: " and its string form.
C9_RateLimitForCodedError ==
    pc = "done" =>
      /\ CodedError(error, 429) =>
           /\ message = "Rate limit exceeded. Please try again in a few moments."
           /\ Contains(message, "Rate limit")
      /\ (error.kind = "object" /\ CarriesCode(error, 429)) =>
           message = "Unknown error: [object Object]"

C9_Witness ==
    /\ pc = "done"
    /\ CodedError(error, 429)
    /\ error.message = "Too Many Requests"
    /\ Contains(message, "Rate limit")

\* C10: every Error with the numeric code 404, whatever its message, is
\* answered with text that contains "File not found", names the Picker and
\* tells the caller to select the file and retry.
C10_NotFoundNamesPicker ==
    (pc = "done" /\ CodedError(error, 404)) =>
      /\ StartsWith(message, "File not found: " \o error.message)
      /\ Contains(message, "Picker")
      /\ Contains(message, "select the file, then retry")

C10_Witness ==
    /\ pc = "done"
    /\ CodedError(error, 404)
    /\ error.message = "Not Found"
    /\ Contains(message, "File not found")
    /\ Contains(message, "Picker")

\* The value is an Error that carries no numeric code.
UncodedError(e) == e.kind = "Error" /\ ~(e.hasCode /\ e.codeIsNumber)

\* C11: an Error without a numeric code yields "Error: " and its message, a
\* value that is no Error yields "Unknown error: " and its string form, and
\* formatError never throws.
C11_FallthroughNeverThrows ==
    pc = "done" =>
      /\ ~threw
      /\ UncodedError(error) => message = "Error: " \o error.message
      /\ error.kind # "Error" => StartsWith(message, "Unknown error: ")

\* The part of C11 the code keeps: the two fallthrough texts, for every value
\* whose conversion to a string returns.
C11_FallthroughWhenConvertible ==
    (pc = "done" /\ ~valueToStringThrows(error)) =>
      /\ ~threw
      /\ UncodedError(error) => message = "Error: " \o error.message
      /\ error.kind = "string" => message = "Unknown error: " \o error.message
      /\ error.kind = "object" => message = "Unknown error: [object Object]"
      /\ error.kind = "null" => message = "Unknown error: null"

(***************************************************************************)
(* Properties of the credential store                                      *)
(***************************************************************************)
\* C12: in every reachable state of the store, isAuthenticated() is true if
\* and only if the credential in memory holds a non-empty access token (it is
\* false when the access token is absent, null or the empty string).
C12_AuthenticatedIffNonEmptyAccessToken ==
    isAuthenticated(credentials, drive) <=>
        (credentials.access_token.kind = "string" /\ credentials.access_token.value # "")

\* C18: a store constructed over a token file that cannot be parsed holds no
\* credential, isAuthenticated() is false and getDrive() is refused; and the
\* construction leaves the file as it found it.
C18_CorruptRecordLoad ==
    /\ [](( last.op = "constructor" /\ tokenFile.kind = "corrupt" ) =>
            /\ credentials = NoCredentials
            /\ ~isAuthenticated(credentials, drive)
            /\ getDriveThrows(drive))
    /\ [][last'.op = "constructor" => tokenFile' = tokenFile]_vars

\* A store constructed over a corrupt file that an earlier process of the same
\* history left behind.
C18_Witness ==
    /\ last.op = "constructor"
    /\ tokenFile.kind = "corrupt"
    /\ authServer.issued > 0
    /\ getDriveThrows(drive)

\* The step completes a call of op: the call ends in this step, by returning
\* or by throwing.  A step that sends a request adds to pending or changes
\* the server, and the clock's step changes now.
Completes(op) ==
    /\ last'.op = op
    /\ now' = now
    /\ authServer' = authServer
    /\ pending' \subseteq pending

\* The response the step resumed a suspended call with.
Resumed == CHOOSE p \in pending : p \notin pending'

\* C13: every successful call that changes the credential in memory (by
\* setCredentials, setTokens, or a refresh in getFreshAccessToken or in a
\* request to Drive) attempts the write of the token file before it returns,
\* and when the write succeeds the file holds the credential in memory.
C13_PersistAfterMutate ==
    [][ ( /\ credentials' # credentials
          /\ last'.op \in { "setCredentials", "setTokens", "getFreshAccessToken", "driveRequest" }
          /\ last'.status = "returned" )
        => /\ last'.saved # "none"
           /\ last'.saved = "written" => tokenFile' = RecordFile(credentials') ]_vars

\* C14: setCredentials(code) resumed with an accepted exchange holds the
\* tokens of the response in memory, has attempted the write (the file holds
\* them when the write succeeded) and isAuthenticated() is true; resumed with
\* a rejection it throws and leaves the credential, the Drive client and the
\* token file as they were.
C14_ExchangeCode ==
    [][ ( Completes("setCredentials") /\ pending' # pending )
        => IF Resumed.ok
           THEN /\ last'.status = "returned"
                /\ credentials' = Resumed.tokens
                /\ isAuthenticated(credentials', drive')
                /\ last'.saved # "none"
                /\ last'.saved = "written" => tokenFile' = RecordFile(Resumed.tokens)
           ELSE /\ last'.status = "threw"
                /\ UNCHANGED <<credentials, drive, tokenFile>> ]_vars

\* A rejected exchange has completed in a store that held no Drive client,
\* after an accepted one has been answered by the server.
C14_Witness ==
    /\ last.op = "setCredentials" /\ last.status = "threw"
    /\ drive = "null"
    /\ \E p \in pending : p.op = "setCredentials" /\ p.ok

\* C15: a call of getFreshAccessToken on a store that holds a valid access
\* token or a refresh token returns a non-empty access token that is valid
\* now; a call that fails writes nothing to the token file.
C15_FreshTokenWheneverHeld ==
    [][ Completes("getFreshAccessToken")
        => /\ ( \/ /\ truthy(credentials.access_token)
                   /\ validAccessToken(authServer, credentials.access_token.value, now)
                \/ truthy(credentials.refresh_token) )
              => /\ last'.status = "returned"
                 /\ last'.value # ""
                 /\ validAccessToken(authServer, last'.value, now)
           /\ last'.status = "threw" => tokenFile' = tokenFile ]_vars

\* C15 as the code has it: a call that returns, returns the non-empty access
\* token that memory now holds, after an attempted write (the file holds the
\* credential when the write succeeded).  A held token that is non-empty and
\* not past its recorded expiry is returned as it is; otherwise a refresh
\* token the server accepts yields a token the server issued, recorded with
\* its true expiry, and the refresh token is kept.  Without a refresh token,
\* or with one the server rejects, the call throws, and a call that throws
\* changes neither memory nor the file.
C15_FreshTokenContract ==
    [][ Completes("getFreshAccessToken")
        => /\ last'.status = "returned"
              => /\ last'.value # ""
                 /\ credentials'.access_token = string(last'.value)
                 /\ last'.saved # "none"
                 /\ last'.saved = "written" => tokenFile' = RecordFile(credentials')
           /\ ( pending' = pending /\ ~shouldRefresh(credentials, now) )
              => /\ last'.status = "returned"
                 /\ last'.value = credentials.access_token.value
                 /\ credentials' = credentials
           /\ ( pending' = pending /\ shouldRefresh(credentials, now) )
              => /\ ~truthy(credentials.refresh_token)
                 /\ last'.status = "threw"
           /\ ( pending' # pending /\ Resumed.ok )
              => /\ last'.status = "returned"
                 /\ \E i \in 1..authServer.issued :
                        /\ last'.value = accessTokenName(i)
                        /\ credentials'.expiry_date = number(authServer.expires[i])
                 /\ credentials'.refresh_token = credentials.refresh_token
           /\ ( pending' # pending /\ ~Resumed.ok ) => last'.status = "threw"
           /\ last'.status = "threw" => UNCHANGED <<credentials, tokenFile>> ]_vars

\* getFreshAccessToken has returned a second access token, obtained with the
\* refresh token after the first one expired, and the file holds it.
C15_Witness ==
    /\ last.op = "getFreshAccessToken" /\ last.status = "returned"
    /\ last.value = accessTokenName(MaxIssued)
    /\ last.saved = "written"
    /\ credentials.refresh_token = string(refreshTokenName(1))
    /\ tokenFile = RecordFile(credentials)

\* C16: when the write of the token file fails in setCredentials, setTokens or
\* getFreshAccessToken, the call still returns, the credential in memory is
\* the new one (the received token set; for a refresh, with the refresh token
\* kept; for a held token, the credential as it was), and the store that
\* received a token set holds a Drive client over it.
C16_WriteFailureNotFatal ==
    [][ ( /\ last'.op \in { "setCredentials", "setTokens", "getFreshAccessToken" }
          /\ Completes(last'.op)
          /\ last'.saved \in { "refused", "torn" } )
        => /\ last'.status = "returned"
           /\ last'.op \in { "setCredentials", "setTokens" }
              => /\ credentials' = last'.received
                 /\ drive' = "client"
                 /\ isAuthenticated(credentials', drive')
                      = (last'.received.access_token.kind # "undefined")
           /\ last'.op = "getFreshAccessToken"
              => /\ credentials' = IF pending' # pending
                                   THEN refreshed(credentials, last'.received)
                                   ELSE credentials
                 /\ credentials'.access_token = string(last'.value)
                 /\ drive' = drive ]_vars

\* An accepted exchange has completed with a write that tore the file: the
\* file is unparseable and memory holds the exchanged credential.
C16_Witness ==
    /\ last.op = "setCredentials" /\ last.status = "returned"
    /\ last.saved = "torn"
    /\ tokenFile = CorruptFile
    /\ credentials = last.received
    /\ isAuthenticated(credentials, drive)

\* The call that completed last is a setCredentials or a setTokens that
\* returned and whose write succeeded.
SavedTokenSet ==
    /\ last.op \in { "setCredentials", "setTokens" }
    /\ last.status = "returned"
    /\ last.saved = "written"

\* C17: after a setCredentials or setTokens that returned and whose write
\* succeeded, the file holds the whole received token set and nothing else,
\* and a process started over the file holds the same credential with
\* isAuthenticated() true.
C17_RestartReload ==
    /\ [](SavedTokenSet => tokenFile = RecordFile(last.received))
    /\ [][ ( SavedTokenSet /\ last'.op = "constructor" )
           => /\ credentials' = credentials
              /\ isAuthenticated(credentials', drive') ]_vars

\* C17 as the code has it: the restarted store holds the same credential and
\* a Drive client, and isAuthenticated() answers as it did before the
\* restart, which is true exactly when the token set has an access_token.
C17_RestartReloadSameAnswer ==
    /\ [](SavedTokenSet => tokenFile = RecordFile(last.received))
    /\ [][ ( SavedTokenSet /\ last'.op = "constructor" )
           => /\ credentials' = credentials
              /\ credentials' = last.received
              /\ ~getDriveThrows(drive')
              /\ isAuthenticated(credentials', drive') = isAuthenticated(credentials, drive)
              /\ isAuthenticated(credentials', drive')
                   = (last.received.access_token.kind # "undefined") ]_vars

\* A process restarted over the file that a setTokens wrote, after the server
\* had issued tokens to an earlier exchange: the store holds what the file
\* holds.
C17_Witness ==
    /\ last.op = "constructor"
    /\ authServer.issued > 0
    /\ tokenFile = RecordFile(Credentials(string("manual"), string("revoked"), number(1)))
    /\ credentials = parse(tokenFile.record)
    /\ isAuthenticated(credentials, drive)

\* C26: in every interleaving of setCredentials, setTokens and
\* getFreshAccessToken whose writes succeed, whenever no call is suspended
\* the credentials in memory are what the token file holds: the file is the
\* record of the credentials once a call has written it, and before that the
\* credentials are what the constructor loaded from it.
C26_FileFollowsMemory ==
    pending = {} =>
       /\ credentials = loadedCredentials(tokenFile)
       /\ (last.op # "constructor" /\ last.status = "returned") =>
            tokenFile = RecordFile(credentials)

\* setTokens ran between the two halves of a refresh: the credentials hold
\* the refreshed access token with the refresh token of setTokens, and the
\* file holds the same.
C26_Witness ==
    /\ pending = {}
    /\ last.op = "getFreshAccessToken" /\ last.status = "returned"
    /\ credentials.access_token = string(accessTokenName(2))
    /\ credentials.refresh_token = string("revoked")
    /\ tokenFile = RecordFile(credentials)

(***************************************************************************)
(* Properties of the tool handlers                                         *)
(***************************************************************************)
\* C19: whatever fails inside a handler (the authentication check, a call to
\* the Drive API, the token exchange), the handler returns formatError of
\* the failure with the error flag; no handler throws, and no success
\* payload carries the error flag.
C19_ErrorBoundary ==
    /\ ~result.threw
    /\ invocation.failed =>
         result = [text |-> formatError(invocation.caught), isError |-> TRUE, threw |-> FALSE]
    /\ result.isError =>
         /\ ~StartsWith(result.text, "result of ")
         /\ ~StartsWith(result.text, "Successfully")
    /\ ~invocation.failed /\ result.isError =>
         invocation.tool = "gdrive_open_picker" /\ ~isHttpMode

\* gdrive_delete_file was refused with 429 at its second call, and the result
\* is the rate-limit text with the error flag.
C19_Witness ==
    /\ invocation.tool = "gdrive_delete_file"
    /\ invocation.failed /\ invocation.failedAt = 2
    /\ invocation.caught.code = 429
    /\ result.isError
    /\ StartsWith(result.text, "Rate limit exceeded")

\* The invocation handled last is one of a file tool on an authenticated
\* store (the file tools leave the store as it is).
AuthenticatedFileTool ==
    invocation.tool \in FileTools /\ isAuthenticated(credentials, drive)

\* C20: a file tool's handler, invoked on an authenticated store, issues
\* exactly one call to the Drive API.
C20_ExactlyOneCall ==
    AuthenticatedFileTool => Len(upstream) = 1

\* C20 as the code has it: the handler issues its first call once; it issues
\* a second call only in gdrive_delete_file (the delete, after the name
\* fetch) and in gdrive_get_file (the export or the download of the
\* content), never a third, never the same call twice, and none after a call
\* that failed.
C20_CallsPerHandler ==
    AuthenticatedFileTool =>
      /\ Len(upstream) \in { 1, 2 }
      /\ upstream[1] = firstCall(invocation.tool)
      /\ Len(upstream) = 2 =>
           /\ upstream[2] # upstream[1]
           /\ \/ invocation.tool = "gdrive_delete_file" /\ upstream[2] = "files.delete"
              \/ /\ invocation.tool = "gdrive_get_file"
                 /\ upstream[2] \in { "files.export", "files.get(alt: media)" }
      /\ invocation.tool = "gdrive_delete_file" /\ ~invocation.failed => Len(upstream) = 2
      /\ invocation.failed => Len(upstream) = invocation.failedAt

\* gdrive_delete_file has succeeded after two calls, and a store that an
\* exchange authenticated was used.
C20_Witness ==
    /\ AuthenticatedFileTool
    /\ invocation.tool = "gdrive_delete_file" /\ ~invocation.failed
    /\ upstream = << "files.get", "files.delete" >>
    /\ last.op = "setCredentials" /\ last.status = "returned"

====
